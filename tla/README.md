# homeway: TLA+ models, checks and proofs

homeway is a self-hosted WireGuard exit node: a *backend* (the exit server) that
may sit behind NAT, a *relay* with a public address that forwards between
clients and backends, a unified daemon that runs these as roles, and a client
core with a local control plane. This directory models the parts where several
goroutines or processes share state, checks them with TLC and proves the main
results with TLAPS. All source paths below are relative to `src/`.

## 1. Inventory

| Component | State it keeps | Operations | Hard behaviour | What makes it correct |
|---|---|---|---|---|
| Relay core, `internal/relay` (`relay.go` `leg.go` `assoc.go` `control.go` `reap.go`) | leg table (one leg per backend label), session table (label × client), sid counter, control-connection counters, per-session buffers | UDP registration, TCP control connection (handshake, OK, attach, replay, read loop), packet forwarding, session announcement, LEGUP, reaping, shutdown | one goroutine per connection, per session, plus packet loop and reaper; every write happens outside the lock | one open connection per backend, slots returned, sids unique, traffic only to the authenticated leg, limits, nothing waits for ever |
| Backend control client, `internal/server/relayctl.go` | one TCP connection with back-off | reads OK, SESSION, RELEASE; clears, registers, removes legs | reconnects while the relay still serves the old connection | no stale legs after reconnect |
| Backend registration, `internal/server/relayclient.go` | `verified` | HELLO / PROOF / KEEPALIVE on a timer, answers to CHALLENGE, OK, AGAIN | lost, late, repeated datagrams; restarts and address changes of either side | registration never rolls back; both sides agree in the end |
| Backend bind, `pkg/servercore/bind.go` | `legByID`, `legByR`, `legRecent`, `legPorts`, `legCh`, generation channel `dead_` | RegisterLeg, ClearLegs, RemoveLeg, read loops, idle reaper, Send, Open, Close | dead sockets, late clean-ups, replaced legs, Close/Open generations | tables agree, routed legs are read, right source socket, limit |
| Device table, `pkg/servercore/peers.go` | entries by device, asynchronous device-operation queue | register, rotate, evict, remove, reconcile | operations applied later than the table changes, queue time-outs | table and device peers converge; unique addresses |
| Exit server, `internal/server` (`serve.go`, `upnp.go`, `publicendpoint.go`, `state.go` …) | assembled services, UPnP lease, endpoint candidates, token ledger | start, stop, renew, publish, revoke | timers against external services | one lease at a time, revocations survive restarts |
| Control plane, `internal/control` | connections, subscriptions, streams, write queue | request dispatch, subscribe, stream open / data / close | one writer and many producers per connection; finish exactly once | no event or stream byte lost or reordered without an end notice |
| Event bus, `clientcore/facade/bus.go` | sequence number, ring, subscribers | Publish, Subscribe with snapshot and replay, Unsubscribe | delivery outside the lock, overrun | a subscriber sees a gapless, ordered suffix or is told overrun |
| Host table, `clientcore/facade/table.go` and the managers beside it | records on disk and in memory, sessions | add, remove, refresh, attach | saves before a stop that may time out | disk and memory agree after a retry |
| Host session, `clientcore/hostsession` | session, recovery round, rate limits | start, stop, recover by level, rebuild | concurrent triggers, stop during rebuild | one round at a time, nothing survives Stop |
| Client transports, `clientcore/internal` | sockets, endpoint race, identities | Open, Rebind, Close, race | socket swapped under receivers | every socket has a reader or is closed |
| Supervisor, `internal/daemon/role.go` | role states and contexts | StartRole, StopRole, RestartRole, the role loop | control calls against a loop that fails and backs off | the desired state wins |
| Node state, `internal/nodestate` | lock file, state directory | lock, export, import | crash between renames | old or new state, never a mixture |
| Listeners of a host, `carriers.go`, `forward.go`, `socksmgr.go`, `pkg/socks` | rules and their listeners, two files, SOCKS connections | put, delete, switch on and off, removal of a host | requests on managers that are gone, saves that fail after the listener opened | a port has one owner, nothing listens for a host that is gone |
| Phone's tunnel, `clientcore/cmd/clientcore` | generation, stage, lock, health, port forwards | prepare, attach, stop, patrol | a generation outlives its stop; sleep and noise against the patrol | generations follow one another, a dead path is noticed |
| Terminal service, `pkg/term` | sessions, ring of output, legs, screen | create, attach, write, kill, close | one writer per leg, evictions, shells that do not die | no output lost, doubled or after the end; closed sessions go |
| Services in the tunnel, `pkg/files`, `pkg/dns`, `pkg/intercept`, `pkg/egress`, `pkg/speedtest`, `pkg/portfwd`, `pkg/connreg` | per connection | protocol servers | limited | – |
| Daemon assembly and CLIs, `internal/daemon` (rest), `clientcore/cmd` (rest) | – | sequential I/O | – | – |
| `surface/`, `contracts/`, `tools/`, `third_party/` | – | UI, schemas, build, vendored code | – | – |

Interactions: the backend's control client and the relay's `controlConn` talk
over TCP (OK, SESSION, RELEASE downwards, KEEPALIVE upwards); for each SESSION
the client calls `RegisterLeg` on the bind, whose read loop sends LEGUP from a
new socket to the session's own port at the relay. Registration runs over UDP
between `relayClient` and the relay's `handleControl`, which shares the leg
object with the control connection. Device, event-bus, control-plane and
session components talk by calls and channels inside one process.

`PROJECT.json` lists the hazards with their lines and the properties that cover them.

## 2. Modules

| Module | Models | State ↔ code |
|---|---|---|
| `Relay` | relay core | `legs`/`leg` = `r.legs` and `leg` structs; `assocs`/`assoc` = `r.assocs` and `assoc` structs; `nextSid`, `ctlHandshaking`, `ctlEstablished` as in the code; `conn[c].pc` is the position of one `controlConn` goroutine; `reader` the packet loop, `reaper` the reap loop; `wire`, `peer`, `known`, `epoch` the backend and the TCP connections |
| `ServerBind` | backend bind | `byID`, `byR` = `legByID`, `legByR`; `leg[l]` a `relayLeg` with its read loop; `recent`, `ports`, `queued` = `legRecent`, `legPorts`, `len(legCh)`; `ctl` the control client inside `RegisterLeg`; `gen`, `dead` the generation of `dead_`; `reaper`, `rx` its goroutines |
| `LegRegistry` | what the bind promises the relay: a partial injection from sessions to data ports, changed by *Dial* and *Lose* only | refined by `ServerBind` with `Port[s]` = the remote of `legByID[s]` |
| `Registration` | UDP registration, both ends | `verified` = `rc.verified`; `held` the relay's leg; `me` the backend's present source address; `net` the datagrams in flight |
| `EventBus` | event bus, the sessions that publish, one control connection | `log` = `seq` and all events, of which the last `ringLen` are `ring`; `sub` the connection's `Subscriber` (`pending`, `ch`, `overrun`); `conn` its queues `reqC`, `highC`, the latch `subConfirm`, `heldFrames` and the writer's position; `publisher[d, w]` a goroutine between its state change and the end of `Publish`; `fe` the front end (external) |
| `Carriers` | port forwardings, SOCKS listeners and connections | a manager is the pair of `forward.Manager` and `socksManager` of one Attach: its rules, listeners and file; `set` which request is past its member check under `addMu` |
| `Surface` | the screen that surface legs follow | the dirty rows, `needSnap` and the queue of each leg; a screen is a version |
| `Supervisor` | the supervisor of one role | `enabled` the configuration; `state` = `stats[name].State`; `cur` = `roles[name]`; `loop[m]` goroutine and context of a `managedRole`; `caller[c]` a control connection inside `startRole`, `StopRole` or `RestartRole` |
| `TermLife` | terminal sessions and their shells | the table by name, `done`, `waitOnce`, the pump, the service's Close |
| `TermLegs` | legs of one terminal session | the list of legs, active, size, who answers queries; when the ring may go |
| `TermLeg` | the writer of one raw leg | ring, position, control frames, `torn`, handshake, ENDED |
| `HostSession` | a host's session | `session[i]` an instance with its exit session, rounds, cool-down and flags; `work[g]` where the start goroutine of an instance or a dialler is; `open` the exit sessions not closed |
| `Ladder` | one round of recovery on the levels R1 to R3 | `cur` = `recoverGate.cur`; keys, socket, path and race the round works on; late actions |
| `Patrol` | the patrol of a tunnel that serves | `failStreak`, `lastCountedFail`, `localNoiseSince`, `relayStreak`; the world it probes |
| `Learning` | the cache of learnt addresses | entries in memory and in the file, `saveSig`, the save loop, `saveDone` |
| `ClientBind` | the client's UDP bind | `current` = `b.conn`, `shut` = `b.closed`; receiver, rebind and race with their goroutines; `path` = `valid`, `adopted`, `handoverTo` |
| `Identity` | master key and device tag | the two files, `identity.lock`, one loader per process |
| `DeviceTable` | the exit's devices | `peers.go`'s entries against the WireGuard device's peers; `opQueue`; the device's Close |
| `HostTable` | the client's hosts | `hosts.json`, the tables in memory, a session per host, requests under `opMu` |
| `NodeState` | lock, start, import | the pieces in place, set aside and unpacked; the import's step |
| `ControlStream` | one control connection of the daemon | `highC`, `dataC`, the workers' buffers, `finish`, `close`; reader, dispatcher, executors, writer |
| `ControlClient` | the Go client and `streamConn` | reader, `recv`, end channel, the calls that wait |
| `TunMode` | the phone's tunnel | `probeRunning`, `tunNow`, `stageNow`, `tunHealthy`; one record per generation |
| `Ascending` | sequences of numbers in order, for the proofs | – |
| `Relay_proofs` (relay, registration), `Facade_proofs` (the parts of `MCFacade`), `Sessions_proofs` (those of `MCSessions`, and the bind), `Supervisor_proofs` (those of `MCSupervisor`), `Streams_proofs` (the daemon's control connection), `Services_proofs` (its client, the tunnel), `Tables_proofs` (the host table, a terminal's legs and their writers), `Ascending_proofs` (lemmas on sequences) | theorems (section 5) | – |

`MCRelay` gives `Relay` its symmetry and a view that forgets what an unreferenced leg
object held. The other MC modules check components side by side that share no state: a variable
`part` says which one moves, the rest stay in their initial state, so that the state space is
the sum of the parts. Their composed properties are conjunctions of the parts' properties.

| MC module | Parts |
|---|---|
| `MCLegs` | `Relay`, `Registration` |
| `MCFacade` | `EventBus`, `Carriers`, `Surface` |
| `MCSupervisor` | `Supervisor`, `TermLife`, `Patrol`, `Learning`, `ClientBind` |
| `MCSessions` | `HostSession`, `DeviceTable`, `NodeState`, `Ladder`, `Identity` |
| `MCTables` | `HostTable`, `TermLegs`, `TermLeg`, `ControlStream` |
| `MCServices` | `TermLeg`, `Surface`, `ControlStream`, `ControlClient`, `TunMode` |

One action is one critical section under the component's mutex, or one blocking
call outside it. Pairs that no other goroutine could tell apart are one action:
the deferred slot releases in `Leave`; the push to a session that already
exists with its lookup in `ForwardUp`; the lookup and the section of `Proof`
(the code's re-check of the table makes a stale lookup a no-op); check and
section of `ClearLegs` and `RemoveLeg`; and, in `EventBus`, what `opSubscribe`
does from the latch to the confirmation, which it does under `subMu`.

Abstractions: MACs, cookies and tokens are replaced by who can produce the
message (a LEGUP needs a SESSION the backend read in this incarnation of the
relay, a PROOF needs the challenge). A rejected or over-limit control
connection is `HandshakeFails`. `Restart` drops all goroutines and in-flight
bytes at once. In `EventBus` a state is a version number of its domain, and
payload sizes appear only as the freedom to evict more of the ring than the count
asks for. In `Supervisor` a back-off may end at any moment. In `TermLeg` output is counted
in units, in `Surface` a screen is a version; in `HostSession` a round of recovery is one
step with an outcome (`Ladder` has its levels). Time is a flag or an age that an `Age*` action
raises and that the code's `last = now` resets.

Time assumptions. (1) A goroutine needs less than any time-out between two of
its critical sections, so what it holds does not age (`HeldLeg`, `Aging`). (2) In
`Registration`, an exchange of HELLO, CHALLENGE and PROOF is over before the
next HELLO (`relayRetryEvery`, 5 s): every HELLO replaces the challenge, and on
a path slower than that the registration could repeat for ever.

Assumptions about callers: one relay per bind and a serial control
client (both as `startRelayLeg` and `runControlConn` use it), and a device that
waits for its receivers before it opens its bind again (as wireguard-go does), on the
backend as on the client.

## 3. Runs

Bounds are named in the modules and set in the `.cfg` files. `Timers` selects the
time-outs that may expire in an instance of `Relay`, so that each run explores the ones its
question needs.

| Run | Question | Instance and why it is enough |
|---|---|---|
| `relay_control` | Does the hand-over between two control connections of one backend work on every path? `ServedIsCurrent`, `ConnectionsAreAccounted` | 3 connections for 2 connection slots and 2 handshake slots, so that a connection is replaced while the old one is still on its way out and both limits are hit; UDP registration and leg time-outs; 2 leg objects so that an old goroutine can hold one leg while a new one is in the map |
| `relay_sessions` | Do sessions stay bound to the leg that proved itself, within the limits? `UplinkGoesToProvenLeg`, `SessionsFit`, `TypeOK` | 2 clients for one place, 2 sids, a backend that moves between 2 addresses, one restart; fallback sessions (UDP address) and numbered ones, failing announcements and replays |
| `legs` | Does a session or a lost connection wait for ever; does a late datagram roll an address back, and do backend and relay agree in the end? `NothingHangs`, `AddressNeverRollsBack`, `BackendSettles` | 2 clients for one place whose packets keep their session fresh, 1 sid, the three time-outs of a session; 3 challenges, 2 addresses, 3 datagrams in flight, 3 faults |
| `relay_orphan` | violation of `ControlledLegIsMapped` | see findings |
| `bind` | Are tables and routing right under every interleaving, does the bind implement `LegRegistry`, and is an idle leg reclaimed? `TypeOK`, `TablesAgree`, `RoutedLegHasReader`, `NeverMainToDataPort`, `RegistrySpec`, `IdleLegsGo` | 2 sessions, 2 ports, 2 leg objects, 2 generations: a session can change its port, a port its session, and a read loop can outlive its leg and its generation. What more of each adds is covered by the theorems |
| `bus` | Do followers lose a change in silence, or see one before they may? Do two hosts' listeners keep apart? `FollowersKeepUp`, `CarriersAgree`, `NoMixture`, `FacadeTypeOK` | bus: 2 hosts, a ring of 1 and a queue of 1, so that 2 changes overrun both, 3 requests (snapshot, subscribe, and one that changes the subscription), 2 connections, 2 generations; listeners: 2 hosts on 2 ports, 2 managers, one failed save; screens: 2 legs behind queues of 1 |
| `supervisor` | Do rounds of a role overlap, and does everything that is told to end, end? Is what a device knows of its paths right? `RolesAreHonest`, `ShellsAreListed`, `SocketsAreKept`, `PathsAreKnown`, `EndsAreReached`, `PathsRecover`, `WatchTypeOK` | 2 callers, 4 commands, 2 failures, 5 rounds (the assembly's start and one per command); 3 shells for 2 names and one place; a streak of 3 and 4 changes of the world; 2 lifetimes of an entry and a failing save; 2 sockets, 2 races, a direct, a relayed and a strange endpoint |
| `sessions` | What starts, is replaced, or stops while it is worked on: is one left over, torn, or given up too early? `OneSessionPerHost`, `DevicesAgree`, `FilesStayWhole`, `UndisturbedRoundHeals`, `KeptTillLast`, `StopsReturn`, `SessionsTypeOK` | 2 instances, 2 exit sessions, a dialler besides the start goroutine; 3 devices for 2 places with both kinds of address conflict and a queue of 1; 2 pieces of state and 2 imports; 2 rounds, 2 losses, a late action; 2 processes and 3 keys |
| `tables` | Do tables, files, lists and queues agree under concurrent requests? `HostsAgree`, `LegsAgree`, `LegOutput`, `StreamsAgree`, `TablesTypeOK` | 2 hosts, 2 requesters, 2 tables, 3 requests; 3 legs for 2 places, two of one client; a ring of 2 for 4 units of output with 2 write time-outs; 2 streams for one place, queues of 1 |
| `services` | Does everything that must end or catch up do so, and in order? `StreamsInOrder`, `GenerationsAreSerial`, `ServicesFinish` | the same with one leg, one screen, one stream; 3 data frames for a client with room for 1; 2 generations of the tunnel |
| `tun_forwards` | violation of `NoOrphanForwards` | see findings |
| `client_loss` | violation of `LossIsNoticed` | see findings |

Deadlock checking is off where the system may come to rest: a bind whose last
generation was closed, an event bus without events or requests, a role that is
stopped and not started again, a session that was stopped. Every property of a passing run has
mutants in `PROJECT.json`, a composed one a mutant per part: a definition of a module replaced
by one with a plausible bug, marked *Mutant* in the source, under which the property fails.

Fairness. Goroutines run (weak fairness of each goroutine's steps) and timers fire.
Packets, requests, commands, drops, faults, kills and failing calls are never forced. The exceptions are these.
In `Registration`, strong fairness says that a kind of message that is sent again and
again to the present address is handled again and again; the code repeats HELLO and
KEEPALIVE on timers, which is all it can rely on over UDP. In `HostSession`, strong fairness
lets a patrol take its stop channel, a case of a `select` it comes back to at every tick. In
`Supervisor` a role whose context is cancelled returns (the exit server within its
`StopGrace`); in `DeviceTable` a Close of the device that nobody blocks returns; in
`TermLife` a shell may stay deaf to SIGHUP, and the code's grace ends in SIGKILL; in `ControlStream` the
client reads what the writer wrote or the write's deadline passes; in `TunMode` the
extension's calls go on once made. Each `*Fairness` definition lists what it assumes.

## 4. Findings

The three violation runs show where the code does not do what its own comments
say; `PROJECT.json` quotes the lines.

* `relay_orphan`: the orphan clean-up of an old control connection
  (`control.go:194`) deletes the table entry of a leg that a new connection has
  looked up and not yet attached to; the connection is then attached to a leg
  outside the table.
* `client_loss`: a control connection that breaks without a goodbye ends the client's reader
  (`client.go:409`), but nothing tells whoever waits for data of a stream.
* `tun_forwards`: a table of port forwards applied while the generation stops leaves its
  listeners in a generation that is gone (`app_portfwd.go:179`): the second look happens before
  `done` is closed, and after `stopPortForwards`.

Observations made while modelling that no run shows. A name in parentheses is a property stated in its
module, or tried there, that the model refutes.

* Relay: the roll-back of a failed replay (`control.go:342`) also resets sessions that never
  had a UDP address, which leaves a session that points at the zero address. A replaced
  connection whose replay fails rolls back what its successor has already promoted (`control.go:334`).
* Registration: after a relay restart a control connection that comes back first makes the
  relay accept keepalives silently, so the UDP registration is not renewed while that
  connection lives.
* Bind: `RegisterLeg` checks `legDead` before it dials, so a Close in between
  leaves a leg on a closed bind (`bind.go:286`, comment at 238); a read loop
  delivers the packet it holds although its leg was replaced meanwhile
  (`bind.go:416`); a remote that ever had a leg is dropped by `Send` for as long as
  `legPorts` remembers it, not only within the `legRecentAfter` window of the comment
  at `bind.go:194`.
* Event bus: `Stop` and the session's own goroutine change the state and publish
  it in two steps each (`service.go:333`), so the events can be numbered in the
  other order and every front end shows *stopping* until its next snapshot. `bus.go:9` says a
  snapshot reads the sequence number last; the code reads it first (`server.go:803`), and the
  mutant `SnapshotReplyLate` shows that it must. With `Resume = "last"` a subscription to further
  domains resumes behind their older events; `status_watch.go` resumes from its
  snapshot and is not affected, but does not compare the numbers of events
  (117-150). `heldFramesMax` is never reached. The dispatcher of a closed connection may
  still execute a subscription (`server.go:290`), which stays in `bus.subs` and counts as demand
  (`bus.go:320`). `opSubscribe` blocks on a full `highC` with `subMu` held, which the
  writer needs (`server.go:832`, `1245`).
* Supervisor: a start right after a stop finds the state overwritten by the role's loop and
  returns; the loop then ends although the role is enabled (`role.go:112`). A stop that comes
  while a restart waits for the old round is undone by it, and so is a stop between the
  opening of the control plane and the assembly's own start (`unified.go:182-194`).
* Device table: a refresh with a new token keeps the old PSK and addresses
  (`peers.go:384-388` against `identity_store.go:35`; `DeviceServed`); a rotation refused by
  a conflict leaves an entry whose peer is removed (394-401); a dropped AddPeer is never
  repeated, though the logs at 198 and 227 say it converges; an eviction on the receive path
  waits for the device, and happens before the conflict is known; a delayed registration
  with the old key rotates back (`reg.go:18`).
* Host table: a request that got a table which `Close` has emptied meanwhile (`table.go:431-451`) still
  saves, so `host.add` writes a `hosts.json` with its own host and without the others
  (`table.go:320-327`; the history variable `strayed` marks it). A host whose refresh is refused stays offline until
  a retry. Attach lists the hosts before it tells of them, so a front end can be told of one
  that was removed in between.
* Listeners: an entry that is "on" without a listener after a failed rebuild (`OnMeansAccepting`,
  `OffIsRemembered`); a listener left after Detach (`ClosedManagersListenNot`); the removal of a host
  skips its listeners when Detach or a crash comes between `tbl.Remove` and `Carriers()`
  (`table.go:725-737`); a first On whose save fails saves once more before the entry is
  dropped (`socksmgr.go:204-208`).
* Control connection: `upstreamPump` flushes in vain (326-338); a subscription after the
  close is never taken back; the writer takes an event first in every round although the comment
  says it alternates; data after the end is dropped.
* Node state: the probe gives its lock back before the move; a kill between the renames
  followed by a start makes a fresh identity; errors of the roll-back's renames are ignored;
  two imports in one second share directories; Export takes no lock.
* Terminal: a leg that stalls while it drains can be closed without its ENDED (`EndedBeforeClose`), be sent
  a unit twice after its replay (`NothingTwice`), or miss units it was not meant to skip (`NoHoles`); a leg that has
  left the list can still become active (`ActiveIsAttached`), and a writer that has the last
  output to send may find the ring gone (`WritersHaveRing`); a screen whose program writes no more can
  stay behind at a client (`NoneStaysBehind`); Close may not return (`CloseComesBack`, comment near
  `service.go:806`) or leave shells behind (`ClosedHasNoShells`); a failing Setsize leaves the child unreaped.
* Client bind: the unlock goroutine of an earlier race unlocks the relays of the next one early
  (`RelayIsFallback`); Open resets neither `valid`, `regArmed` nor `unlockOnce`, so that after RearmSoft,
  Close and Open a silent race has no unlock goroutine; a Send whose socket was replaced consumes the
  armed registration; two moves within the hand-over grace lose the last candidate.
* Learning: two instances that read, merge and rename lose each other's entries (`WrittenStays`); an expired entry
  in memory shadows a fresh one of the file; a failed save is not repeated by itself.
* Identity: without the lock a half-written tag is archived at once and a half-written master key
  after 200 ms, which can split the identity.
* Tunnel: `LockIsItsOwn` and `StoppedMeansFree` fail after a forced stop; an attach with no descriptor fails
  whatever stage it meets; an old generation can undo `tunHealthy.Store(true)` of a new one.
* Ladder: after a lost socket and a restart of the exit, R2 registers only on the dead socket, and R3
  gives a good path up; a panic in a round leaves `recoverGate.cur` set for ever. Patrol: constant
  local noise is never reported (`NoisyPathIsReported`).

## 5. Theorems

Every safety invariant and every action property that a passing run checks is also a theorem, for every value of
the constants that the assumptions allow. Most are of the form `Spec => []Inv`; `ImplementsRegistry`,
`NoRollback` and `KeptToTheLast` are of the form `Spec => P` for a refinement and for action properties.
Two have a hypothesis on constants that select a behaviour, not a size: what a front end is promised holds if it resumes
from the number of its snapshot (`Resume = "snapshot"`, as `status_watch.go` does), and that it is current
also needs that one goroutine changes and publishes a session's state (`Worker = {"session"}`). Section 4
says what goes wrong otherwise.

| Theorem | States |
|---|---|
| `Relay_proofs!TypesHold` | `TypeOK` |
| `Relay_proofs!HandOver` | `ServedIsCurrent`: of two control connections of a backend only the newest is served |
| `Relay_proofs!Accounted` | `ConnectionsAreAccounted`: both connection counters equal the goroutines that hold a slot |
| `Relay_proofs!SessionsHaveRoom` | `SessionsFit`: limits, and no session number in use twice |
| `Relay_proofs!UplinkIsProven` | `UplinkGoesToProvenLeg` |
| `Relay_proofs!RegistrationTyped`, `NoRollback` | types of the registration, and the action property `AddressNeverRollsBack` |
| `Sessions_proofs!TypesHold`, `Agreement`, `NoLegWithoutReader`, `DataPortsStayOffMain`, `LimitHolds` | the four invariants of `bind` and the limit on legs (`LegsWithinLimit`) |
| `Sessions_proofs!ImplementsRegistry` | `Spec => RegistrySpec`: the bind implements `LegRegistry` |
| `Sessions_proofs!OneSessionAndRound` | `OneSessionPerHost` |
| `Sessions_proofs!DevicesAlwaysAgree` | `DevicesAgree`: addresses of their own, and the peers follow the table |
| `Sessions_proofs!FilesAreWhole`, `RoundHeals` | `FilesStayWhole`, `UndisturbedRoundHeals` |
| `Sessions_proofs!KeptToTheLast` | the action property `KeptTillLast`, of devices, paths and tags |
| `Sessions_proofs!SessionsTyped` | `SessionsTypeOK` |
| `Supervisor_proofs!TypesHold`, `RoundsAreHonest` | types, and `RolesAreHonest` (`OneRound` and `GoneIsStopped`) |
| `Supervisor_proofs!BindKeepsItsSockets` | `SocketsAreKept`: no socket left behind, an open bind has a reader, the relays wait for their window |
| `Supervisor_proofs!NoShellIsForgotten`, `PathsStayKnown`, `WatchTypesHold` | `ShellsAreListed`, `PathsAreKnown`, `WatchTypeOK` |
| `Facade_proofs!ListenersAgree` | `CarriersAgree`: a port has one owner, no listener outlives its host, servers belong to entries, nothing passes after off |
| `Facade_proofs!FollowersAreCurrent`, `NothingIsLost`, `ConfirmedBeforeEvents` | `FollowersKeepUp` and two of its parts, which need fewer hypotheses |
| `Facade_proofs!NoViewIsMixed`, `FacadeTyped` | `NoMixture`, `FacadeTypeOK` |
| `Tables_proofs!TablesAgree`, `LegsStayInAgreement`, `LegIsSentInOrder`, `TablesKeepTypes` | `HostsAgree`, `LegsAgree`, `LegOutput`, `TablesTypeOK` |
| `Streams_proofs!PlacesAgree`, `LimitsHold` | `StreamsAgree`, and the limits of queues, requests in flight, streams and workers |
| `Services_proofs!OrderIsKept`, `TunnelsAreSerial` | `StreamsInOrder`, `GenerationsAreSerial` |

The other listed theorems are the inductive invariants these rest on: `RelayInvHolds`, `KeptInvHolds`, `TunInvHolds`,
`HostInvHolds`, `CarriersInvHolds`, `StreamsKept`, `ClientKept`, `FollowersAreSound`, `HostTableKept`,
`TermLifeKept`, `PatrolKept`, `LearningKept`, `ImportKept`, `IdentityKept`, `LadderKept`, `DevicesKept`.

*Relay.* `RelayInv` has six parts. `Typed` adds to the types that a flag is set only
where the code may set it, and what a goroutine holds in hand at each place. `Counted`: the
counters are the cardinalities of two finite sets of goroutines, in the handshake and with a
slot; every exit releases what its goroutine has. `Fit`: tables within their limits, and a
session object in the table at most once. `Control`: `ServedIsCurrent` alone says nothing of the
connection a leg points at, nor of the one that is being replaced; with it go `NoDanglingControl` (a
leg's `ctl` is a goroutine that is still there) and that no connection replaces itself. `Numbered`: session numbers are unique and at most `nextSid`.
`Proven`: every session object, in the table or still held, has only sources that were vouched for its
present number (`Vouched`). Steps are grouped: those that touch no slot (`Slotless`), those that only
take away from tables (`Fewer`), and the hand-over itself.

*ServerBind.* `TablesAgree` is not inductive: `removeLegLocked` and the read
loop's clean-up trust the session and the port a leg carries, and a leg object
loses them when its read loop ends. The inductive invariant `IInv` adds that a
leg with a read loop, or about to get one, keeps its session and port
(`AttendedKnown`), that every leg in a table is such a leg
(`RoutedLegHasReader`), and what the control client holds inside `RegisterLeg`
(`ControlOK`). Steps fall into four classes, each with a lemma: a step that moves no
entry (`Kept`), removal of any set (`RemovedKept`), insertion (`InsertedAgree`), exit of
a read loop (`ExitedAgree`). Routing and limit follow from small invariants on top
(`Memory`, `Bounded`), the refinement from `RemovedIsLost` and `InsertIsDial`.

*Registration.* A late proof could roll the address back only if it still
matched the challenge. `Honest` says why it cannot: nothing carries an address
the backend has not had (`NotAhead`), a challenge and its proof carry one address
(`OneAddress`), and a proof of the challenge issued last comes from an address at
least as new as the registered one (`NewEnough`). Freshness of challenges is the
assumption behind it: a nonce is new if neither the leg nor a datagram carries it.

*Supervisor.* `OneRound` says nothing of rounds that are not made yet or of the
place of the living one. `OthersOver` does: the rounds before the present one are
done, those after it not made. It holds because a start makes a round only when
there is none or `done` of the present one is closed. A living round is then the present one
(`AliveIsPresent`), which also makes `GoneIsStopped` inductive: only the present
round's loop writes its end into `state`, and the operations overwrite it only while it is
*running* or *failed*. `LoopStepKept` and `CallStepKept` show the two halves.

*ClientBind.* No socket is left behind because a Rebind begins only on a bind that was opened, and what it
puts in place is a socket (`SwapsInPlace`). Relays wait in the window of a race, but not
always: only a goroutine of an earlier race can have unlocked them there (`LockedInWindow`, the observation in
section 4). Who sends has a race to send for (`RaceIsOn`), and a valid path is an address, never the one
it replaced (`PathIsSound`).

*TunMode.* A generation is `Sound`: what it will write into the stage fits where it goes on from
there, and its client lives only while nobody has shut it. `BeginIsFirst` says that the generation being made
is a new one. Only under the history variable `forced` being false is `Serial` kept: a free lock means
that nothing is alive, and the stage *attached* is the present generation's. A forced stop frees the
lock under a living generation by design, which is why the theorem excepts it.

*HostSession.* `NoOrphan` (every open exit session is shown by an instance or in the hands of who will close or
store it) is not inductive. Two goroutines that rebuilt one instance together would overwrite each
other's exit session, so `RebuildsAlone` says that a rebuilder is alone in its cool-down and
that the exit session its instance shows is the one it closes, or closed already. Likewise, before
the start goroutine has stored its first exit session nobody else works for its instance (`StartsAlone`).
`Numbered` makes a new exit session differ from all that are held. `RoundsAreClimbed` gives the
single flight: a round runs exactly as long as one goroutine climbs. The cardinality in
`OneRoundAtATime` follows from it by the library's facts on singletons and the empty set.

*Carriers.* `PortsHaveOneOwner` and `NoListenerOfGoneHost` speak of the attached managers only, and Attach makes
those from the files: they hold because the files satisfy them too. So the invariant states both of the ports on the
disk, and that the attached tables claim the same ports (`DiskIsTable`); a rule or entry counts
there by kind, host and port, so that `Off`, failures and Open, which change the rest, move nothing. The
history variable `skewed` excepts exactly what the code gives up: a removal that was skipped or not
saved, and a request that lands on managers already closed. A request lands for a host that is there or whose
removal waits for it, because both take `addMu` (`Asked`). `OnAgain` may take the port of its own entry: nobody else's is in
the way because a host has one entry (`Single`). `NoTrafficAfterOff` is not inductive, since a connection may
have reached its other end and not yet pass data; `LinksFollow` covers that interval too. `ServersHaveEntries` needs
that managers not opened yet are empty (`Fresh`). `DiskStays`, `AddRuleDisk`, `ProxyLands` and `CascadeDisk` are the classes of steps.

*EventBus.* Three invariants on one another. `FrameInv` says what each queue may hold and in
which order: event numbers rise, each queue is within its limit, and the confirmations on
their way are exactly the latch (`Announced`), so that nothing of a subscription can overtake its
confirmation. Where the writer stands tells what it may have in hand (`WriterIsPlaced`). `SilentInv` follows
the numbers: a subscription and a request for one continue a snapshot the front end has, and what the front end has
not got of a domain is in the queues between bus and front end, in the order of the log, or the subscriber was told of an overrun.
`ViewInv` follows the states: wherever a state stands – in the session, the log, a snapshot read, a frame, the view – it is the one of
the domain's last event up to the number beside it (`UpTo`), but for a change that its one publisher is about to publish.
The last clause is where `Worker` enters.

*Surface.* The frames that wait for a leg, those being written and the one the loop is about to queue form a chain, each made against
what the one before it leaves behind (`FollowerSound`); the loop may forget the dirt before the frames are queued
because the version it made them at is on record.

*HostTable.* A request changes `hosts.json` first and memory last, and in between the two disagree: `OneChanges` gives it the table to
itself for that time, `ChangeOnDisk` says that its table is the attached one or the one Attach waits for. The history variable `strayed`
marks the one request that does not keep this, the observation of section 4.

*TermLegs.* The list has every leg once; the number of terminals, who answers, and the number of writers are
those of the list and of the goroutines (`Answering`, `Counting`); the active leg is its head. *TermLeg.*
`OrderInv`: what is out is in order, what a time-out tore goes on behind it, and all of it is behind the writer's position
except the chunk that the drain tries again – and except a replaced leg, of which the code promises nothing. `TailInv`: ENDED comes only from the
end of the drain, which leaves nothing behind but what it passes over. `Ascending_proofs` has the lemmas on sequences
for these and for the bus.

*ControlStream.* A stream is in one of a few shapes, told by what its request has come to (`Stage`); behind each shape stands
the line of numbers from the pump to the socket without a gap and with the end behind it (`FlowIdle`, `FlowBusy`). A worker's place is given back
by whoever ends the stream first (`PlacesKept`). *Limits*: requests in flight are a sum of a queue, a
goroutine and a set of dialling executors; the limits of streams and workers hold because the check is
repeated under the lock after the dial. *ControlClient.* The line goes on to the reader: what waits in the channel, is held by a
blocked reader or is on the wire continues what was read (`DataLine`).

*TermLife.* Whoever removes a session has waited for its shell, and who has waited found it dead (`LifeSound`). *Patrol.* The streak
is exactly that of the last ticks. *Learning.* What an instance heard is in what it writes, or a save is asked for (`WillBeWritten`), and
the bytes of a save under way are those of the cache (`RawIsCurrent`).

*NodeState.* The loops of the import and of its roll-back are described piece by piece: where each is at
every stage as long as nobody else touches the directory (`Steady`), and, whatever happens, that the old one is in its place
or put aside (`OldIsSafe`). *Identity.* With the lock one process is inside, and the file is as that process has seen or left
it (`LeftAlone`). *Ladder.* A round does its actions in order, and what they have done stays so until a probe crosses or something disturbs
the round (`HasDone`).

*DeviceTable.* `DevicesKept` covers the table by itself: a new entry has no address of another (`ConflictFree`), the operations are well formed.
That the peers follow the table is about operations not executed yet: `Followed` says of every peer what the operations due will
leave of it (the last operation on a key decides, `EndsAs`; an address goes to the one that takes it last, `ComesTo`).
Lemmas say what an operation at the end (`LastDecides`, `OthersBehind`, `NobodyTakes`), one that is executed (`HeadExecuted`) and
one that is given up (`EndsWithout`, `ComesWithout`) do to that; `StepFollows` puts them together for every change of the table.
It needs that no two devices have one key (`OwnKeys`): the removal of one would take the other's peer away.

The assumptions are the modules' `ASSUME`s, which TLC evaluates in every run: bounds and limits are positive numbers; names
that mark *nothing* or *nobody* (`None`, `Absent`, `NoOne`, `Nobody`) are no element of the sets they stand beside; what a stream is called is
not the kind of a frame (`StreamNames`); legs of a terminal are finitely many; devices draw their keys at random, so
no two have the same (`OwnKeysAssumption`, used for `DevicesAgree` only).

Only model-checked: liveness (`NothingHangs`, `IdleLegsGo`, `BackendSettles`, `EndsAreReached`, `PathsRecover`, `StopsReturn`,
`ServicesFinish`), since the prover handles neither fairness nor ENABLED. What a fold or a recursive function computes for
every input is out of its reach too (its induction theorems cannot be used); where an invariant would need it, it is stated by what
decides – the last operation, the head of the list, the writers as a set – and a proof about a filtered list uses the description of the
filter as a function (`Tables_proofs!ListKept`).

## 6. Plan

The modules of section 2 and the theorems of section 5 are done. What would come next: the assembly of the daemon's roles and the relay's
status as modules of their own; `SelectSeq` and fold lemmas once induction over data can be used; the refinement of the bus by an abstract one (a log and
cursors), which `FollowersAreCurrent` states as invariants.

Not modelled: the relay's status and command line, the composition of the exit server (UPnP, public
endpoints: timers around external services), wrappers of the facade, the protocol
servers of `pkg` whose state is one connection (files, DNS, interception, egress, speed test), command-line
tools, user interfaces, build tooling and vendored code. `PROJECT.json` says for each component
what is left out of it.
