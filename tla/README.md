# TargetFacade: a verification project

TargetFacade is a C++ layer over a peer-to-peer messaging kernel ("Targetcore", which is
outside this repository). A client makes one *network*, creates *hubs* with addresses in it,
links hubs to hubs in the process or elsewhere, and then sends, broadcasts, pings, sets timers
and receives callbacks. A COM server offers the same to automation clients, and a C++ wrapper
adds handlers as functions and a *topology* of hubs read from a text. This directory holds TLA+
models of that layer, the TLC runs that check them on small instances and the TLAPS proofs that
hold for every instance.

Paths below are relative to the repository as it is found under `src/`: `Hub.cpp` stands for
`src/src/FacadeHub.cpp`, `Network.cpp` for `src/src/FacadeNetwork.cpp`, `ComHub.cpp` for
`src/com/ComHub.cpp`, and `TargetFacade.h`, `TargetFacadeFn.hpp`, `TargetFacadeTopology.hpp` for
the headers in `src/include/`.

## 1. Inventory

| Component | State | Operations | Talks to |
|---|---|---|---|
| Network singleton and hub registry (`Network.cpp` 61-310) | `s_pInstance`, `m_cRef`, `m_listHubs`, `m_csSecDir`, `m_bSecUsed` | `Acquire`, `Release`, `Shutdown`, `CreateHub(Ex)`, `RemoveHub`, `CloseAllHubs` | starts and stops the kernel; calls `CloseInternal` of hubs; is called by `FacadeHub::Close` |
| Connection bookkeeping of a hub (`Hub.cpp` 850-1250, 2216-2266, 3564-3735) | `m_mapArmed`, `m_mapPeers`, `m_setUnretired` | `Listen`, `Connect`, `Disconnect`, `Link`, the login and close handlers, `MarkPeer`, `DrainCons`, the readers | the kernel's list of connections; the client's `OnPeerUp`/`OnPeerDown` |
| Ping and Close (`Hub.cpp` 973-1089, 3280-3325, 4140-4238) | `m_mapPings`, `m_uNextPingId`, `m_bClosing`, `m_bClosed` | `Ping`, the private topics ping and pong, `CloseInternal`, `Close` | the pump; the far hub |
| Timers (`Hub.cpp` 221-238, 3331-3389, 3767-3955) | `m_mapTimers`, the kernel's timer list | `SetTimer`, `KillTimer`, `ArmPumpTimer`, `On_PITimer` | the pump; the tick count and the system clock |
| Diagnostics sink (`Network.cpp` 1048-1268, `TargetFacadeFn.hpp` 780-891) | `m_pDiagSink`, `m_lDiagMask`, `m_lDiagHeld`, `m_lDiagBusy`, the wrapper's `m_diag` and `m_retired` | `SetDiagSink`, `SetDiagMask`, `DeliverDiag`, `onDiag` | the kernel's one callback slot; every thread that raises an event |
| Current message and delivery (`Hub.cpp` 2755-3131, 3255-3559) | `m_pCurMsg`, `m_bCurMsgBCast`, `m_lCurMsgThread` | `Deliver`, `GetMsgInfo`, the field readers, topic, broadcast, post and bounce handlers | client callbacks, which may re-enter and pump |
| Sending and broadcast (`Hub.cpp` 2277-2523, 2993-3061) | none of its own | `PostMsg`, `Send`, `Post`, `Broadcast` | reads `m_mapPeers` |
| Caller-driven pump (`Hub.cpp` 593-849) | the thread that owns the pump | `Pump`, `PumpOnce`, `GetPending` | every wait of the facade on a caller-pumped hub |
| Security and trust (`Hub.cpp` 1484-2214, `Network.cpp` 704-991) | `m_mapTrusted`, `m_bRequireAuth`, the files of the security directory | `TrustAndEnforce`, `WriteAllowList`, `UntrustPeer`, `SecureEdgeLocked`, `SetSecurityDir` | the file system; arming |
| Endpoints (`FacadeEndpoint.cpp`) | none | parsing, formatting, families, derived services, map blocks | arming and the map |
| Endpoint map of the network (`Network.cpp` 337-511) | `m_mapEndpoints` | `SetEndpoint(Map)`, `GetEndpointFor`, `ResolveDial` | arming verbs that are given no endpoint |
| Topology (`TargetFacadeTopology.hpp`) | `m_hubs`, `m_edges`, `m_mapLines` | `parse`, `createHubs`, `arm`, `closeAll` | the network |
| COM server (`src/com/`) | the event queue, the sinks and their cookies, `m_pHub`, `m_pOwner`, the reference counts | `Advise`, `Unadvise`, `Close`, `FinalRelease`, the dispatch thread, the reads | a facade hub from above, automation clients from below |
| Redialling (`Hub.cpp` 442-475) | `m_nTriesLeft`, `m_uAutoRestart` | `RetryDialDmx::Connect` | the kernel's restart of connections |
| Message builder, C++ wrapper, module entry | see `PROJECT.json` | | |

How they interact. Client threads call the facade; a hub's own *pump* thread (or, for a
caller-pumped hub, one client thread) runs the kernel's events and with them the facade's
handlers and the client's callbacks. The hub's maps are guarded by `m_oCSectPeers`, the network's
list by `m_oCSection` (taken first), the singleton by `s_oCSectInstance`. Calls into the kernel
and callbacks to the client are made outside `m_oCSectPeers`, which is what makes the orderings
below possible. A COM hub adds a thread: the facade's pump copies what it reports into a queue,
and a dispatch thread raises it.

The hard behaviours are these, and the hazards of `PROJECT.json` list them at their lines:

* a record is written, a call made with no lock held, and the record rolled back or confirmed;
* every wait is bounded, so every wait may end with the thing it waited for still to come;
* an object is freed after a handshake that covers some of the threads that may be inside it;
* a bookkeeping row is read by a later call as if it said more than it does;
* two clocks of different grain decide together when a timer is due;
* a callback runs the pump that called it, and sees a second message while the first is current;
* a message fails at a hub that did not send it, and the news travels back over what is left;
* a trust decision is kept in four places (set, file, list, flag) that are written one by one;
* a list is read by position, or a text in two passes, while it changes.

## 2. Modules

| Module | Models | Checked by | Proofs |
|---|---|---|---|
| `HubCons` | connection bookkeeping of one hub | `MCHubCons` | `HubConsProofs` |
| `PingClose` | `Ping` against `Close` | `MCPingClose` | `PingCloseProofs` |
| `FacadeTimers` | one-shot timers over two clocks | `MCFacadeTimers` | `FacadeTimersProofs` |
| `HubRegistry` | the network as owner of kernel and hubs | through `Provisioning` | `HubRegistryProofs` |
| `Provisioning` | the same with secure hubs: their keys and where they are | `MCHubRegistry` | `HubRegistryProofs` |
| `HubDirectory` | what the network promises of addresses (abstract) | through `HubRegistry` | `HubRegistryProofs` |
| `DiagSink` | the diagnostics sink and its owner | `MCDiagSink` | `NetworkProofs` |
| `Trust` | whom a secure hub trusts, lists and enforces | `MCTrust` | `TrustProofs` |
| `Delivery` | sends, broadcasts, posts, deliveries and bounces of several hubs | `MCDelivery` | `DeliveryProofs` |
| `ComHub` | the COM hub: queue, dispatch thread, sinks, teardown | `MCComHub` | `ComHubProofs` |
| `EventStream` | what the COM tier promises of events (abstract) | through `ComHub` | `ComHubProofs` |
| `Endpoints` | the endpoint grammar, as operators | through `Topology` | `NetworkProofs` |
| `Topology` | the endpoint map, resolving, Link and declared topologies | `MCTopology` | `NetworkProofs` |
| `ReadSide` | reading a hub that changes meanwhile | `MCReadSide` | `NetworkProofs` |
| `Ordered` | a finite set of numbers, in order | through `Topology` | `NetworkProofs` |

Every module takes one step per critical section, per call into the kernel, per client callback
or per wait, because another thread may run between any two of those. A wait for *n* slices is a
wait that may run out at any moment. Kernel code is not in the repository; what it is taken to
do is what the code and its comments rely on, and those definitions are marked external.

**HubCons.** `mapArmed`, `mapPeers`, `setUnretired` are the three members of the same names;
`cons` is the kernel's list, of which the code only ever asks "is there a connection to this peer"
(`ConExists`) and to which it sends DESTROY (`ConSignal`). Client threads arm (`Arm`, `PostCon`,
`Rollback`: `ArmRecorded`), disconnect (`StartDisconnect` to `Settle`), or link, seen from the
hub that listens. The pump logs in, closes and destroys; each of those is followed by the locked
half of `MarkPeer` (`PumpMark`) and by the callback outside the lock (`PumpTell`). `DrainSnapshot`
to `DrainExpires` are `DrainCons`. `Owns` says which peers a thread names in its calls, so that
"two threads, one peer" and "a peer each" are two instances of one module.

**PingClose.** `call` follows each thread through `Ping`; `mapPings`, `signalled`, `bClosing` are
`m_mapPings`, the per-row events, `m_bClosing`; `wire` follows each request to the far hub and back.
`Latch` to `Free` are `Close` and `CloseInternal`. `Owner` is the thread that drives a
caller-pumped hub, or none. Entering `Ping` and registering the row are two steps, because the
arguments are checked and the event is created before the lock is taken.

**FacadeTimers.** Deadlines of the facade are ticks since boot (`tick`), deadlines of the kernel
are seconds of the system clock (`top`, with `frac` the position in the second). `ReadTick`,
`ReadFrac` and `SetPITimer` are the three things `ArmPumpTimer` does, with time passing between
them; `Elapse` and `Cancel` are `On_PITimer`. The system clock may be stepped (`StepClock`).

**HubRegistry.** `holders` is the reference count as a set of threads, `instance` the owner of
`s_oCSectInstance`, `hub` each hub object with its life, its pump and its `m_bClosed`. `CreateHubEx`
is `CreateHub`, `CheckAddress`, `Start`, `Publish` and, when refused, the unwind; the list's lock is
held in the second and the last of these only. `RefToClose` says whether clients close hubs only
while they hold a reference to the network.

**Provisioning** extends `HubRegistry` with what `CreateHubEx` does for a hub that is to be secure,
between the look at the address and the start of its pump. `secDir`, `secUsed` are the network's
`m_csSecDir` and `m_bSecUsed`, `hubDir` each hub's own `m_csSecDir` (`NoDir` for a hub that is not
secure), `keyFiles` the files of each stem in each directory, of which the private agreement key,
which nobody else reads, is left out, and `revoked` the directories that have a revocation list.
`prov` follows a creation: `SecurityPaths`, under the network's lock, and the steps of
`ProvisionSelf` (`ProvisionAuth` to `SetRevocationList`), each of which may be refused and leaves
the files as they are. Whether a hub is to be secure is chosen at the first step where it makes a
difference. The library's `ProvisionAuth` is external, and taken to find or make a key as one step;
nobody removes a key file. `LoadPeerKeys` is what a peer finds there.

**HubDirectory** is the abstract specification: an address is open or not, `CreateHub` takes effect
at one moment between call and return. `HubRegistry!Open` is the refinement mapping.

**DiagSink.** `at`, `got`, `event` follow each thread through `DeliverDiag`; `call` follows the one
`onDiag` under way through `SetDiagSink` and `retire`. `Careful` says the client unregisters before
it registers another handler, `Prompt` that handlers return within the budget of `SetDiagSink(NULL)`.

**Trust.** `trusted` is `m_mapTrusted`, `temp` and `file` the hub's `.allow.new` and `.allow`, `list`
what the kernel loaded, `required` its enforcement flag, all of them functions of the hub. `call`
follows a thread through `TrustAndEnforce` (`Grant` to `Relinquish`) and the arming that follows it
(`Arm`, which `ArmResolved` may refuse: `refused`), which `Listen` and `Connect`
enter by `Connect` and `FacadeNetwork::Link` by `Link`; `Snapshot` to `Load` are `WriteAllowList`, with
`why` for which of its three callers it works. Points are model values; an allow-list is a function
from names to points. Whether the kernel agrees to arm is its own decision once it enforces a list
that is not empty (the revocation list is shared and fails closed), so `AuthArm` may refuse at any
time. `Serial` says that calls on one hub come one at a time.

**Delivery.** Several hubs, with the connections between them. `inbox` is what the kernel has queued
for a hub's pump, `stack` the pump turns in progress: each frame is one `Deliver` (or another
callback) with what its `CurMsgScope` saved, and a caller-pumped hub may begin a turn on top of the
one it is in. `curMsg`, `curThread` are the gate `GetMsgInfo` and the field readers ask. `Send`,
`Post` and `Broadcast` are the sends; a broadcast takes its snapshot, posts peer by peer (`PostNext`)
and then answers. A handler may decline (`HandlerReturns`), a message may find no route, and either
makes an exception that travels back and is reported by `ReportBounce`. A connection may be lost
meanwhile: what was posted to the hub at its far end is in that hub's inbox and stays there, what is
routed over it afterwards finds no route. Messages are named by the index of their send; the histories
`declined`, `unrouted` and `lost` say what is owed to whom. `Tree` is the shape the addresses of a
network give it when every hub is linked to one above it only, which is the use the documentation
shows; it is an assumption of one theorem and no restriction of the module.

**ComHub.** `queue`, `cDropped`, `wake`, `quit`, `hubClosed` are the members of `CP2PHubCom`; `refs`
is its reference count, `inNet` the entry in the network's list. The pump goes through the sink
(`CheckHub`, `ReadMessage`, `Push`, `Signal`), the dispatch thread through `DispatchLoop` and `Fire`
(`Wake`, `Pop`, `Snapshot`, `Fetch`, `Invoke`, `HandlerReturns`, `FireDone`). A sink is fetched from
the table in one step and called in the next, with no lock held, so that an `Unadvise` may erase,
revoke and return between the two; a cookie the table no longer knows is dropped from the round
(`FetchGivesUp`), and a sink once fetched is called, a client, a handler and the
network's last release through `Close` (`BeginClose` to `ForgetHub`). An access to a pointer that is
null or an object that is gone sets `fault`, and the model says nothing of what follows.

**EventStream** is the abstract specification of the queue: accepted events are raised in order and
once, refused ones are counted, the count is told when all before it was raised. `ComHub!Stream` is
the refinement mapping.

**Endpoints** has no state: `Parse` and `Format` and what follows from them, over texts taken apart
into scheme, host, port and name, the hosts reduced to those the parser tells apart.

**Topology.** `map` is `m_mapEndpoints`, `armed` the records of every hub, each with how its endpoint
was come by (`Ways`). One thread goes through `parse`, `createHubs` and `arm` (`ParseFile` to
`LinkEdge`, with `CloseNext` for a failure); another client sets endpoints, makes, closes and links
hubs, and arms with and without an endpoint (`LookupEndpoint`, `ResolveDial`, `ArmResolved` are the
steps between which the map and the sibling hub may change).

**ReadSide.** `record`, `peers`, `entry` are what the calls read, and change between any two of them;
`read` is one walk by position (`RelationTo`) or one text read in two passes (`BstrFromRead`, or the
network's `EndpointFor`, which tries once).

## 3. Runs

All runs pass: TLC finishes with no error.

| Run | Instance | What it shows |
|---|---|---|
| `HubCons_owned` | 2 threads, a peer each; no Link | records, rows and the retired set agree with the kernel's list where the code promises it; `DrainCons` leaves only peers whose connection had ended |
| `HubCons_live` | 1 thread, 1 peer, all verbs | every call and the close returns though the pump may do nothing |
| `PingClose_handshake` | 3 threads, 3 pings, one thread drives the hub | a close that saw no row frees no registered ping; success is the own echo; both end |
| `FacadeTimers_two` | 2 timers, second of 3 ticks, 1 clock step | no early, forgotten or stray timer |
| `HubRegistry_network` | 2 threads, 1 address, 2 hubs, 2 directories; any file may be refused | the directory is implemented; hubs are deleted once; the kernel outlives the pumps; a secure hub, its peers and the network agree on where its keys are |
| `DiagSink_unregister` | 2 threads, 2 sinks, 2 classes | no thread is in a destroyed sink; no handler hears a class never asked for |
| `Trust_serial` | 2 threads, 2 hubs, 1 remote peer with 2 keys; files fail | what a hub trusts is listed; nothing is armed unlisted or unenforced; a refused call has either put back the trust it found or left the whole grant |
| `Delivery_bounces` | 3 hubs in a line, the middle one relays and is pumped by its client; 2 sends, 1 lost connection, turns nested twice | a handler is shown its own message; a sender hears of each failure once, and only of its own; what `Broadcast` answers is true; all that is owed is reported |
| `ComHub_events` | 1 client, 2 sinks, 2 events, room for 1 | each sink hears one stretch of the events, in order; the queue is the event stream; the message properties show the handler its message; an unadvised sink hears at most what was on its way to it |
| `ComHub_teardown` | 1 client, 1 sink, 2 events; release and network sweep | the object goes last, and is torn down once; nothing accepted stays in the queue; a close ends |
| `Topology_edges` | 2 addresses, 8 files, 6 endpoints, 4 calls of another client | the two ends of an edge meet; a bad line is the user's; a failed `createHubs` leaves none of its hubs |
| `ReadSide_walk` | 3 peers, 2 spellings, 4 changes | a walk answers what was true at some moment of it; only a text that keeps changing escapes |

Each property comes with a mutant, a plausible bug of the code it is about, that breaks it in the
same run; `PROJECT.json` pairs them, and the mutated form stands before the definition it mutates.

Bounds, and why they are enough to make the interesting cases happen:

* two threads with a peer each keep their calls apart but share pump and close; two of everything is
  symmetric (`SwapPairs`). Two threads on one peer is the instance of section 5;
* `MaxPings` is as large as the number of threads, so that each may have a row when the hub closes,
  and one thread may ping again after a late answer;
* `Sec = 3`, `Delays = {1, 3}` give a delay inside a second and one of a whole second, which is what
  the compensation needs to be put to the test: it must survive two early wake-ups in a row, one of
  them by a step of the clock; `Horizon = 5` lets the longest delay end with ticks to spare;
  `MaxRearms = 2` is the code's own value;
  `MaxSteps = 1`, because two steps of the clock in the life of one timer do make it early, as the
  notes at `Hub.cpp` 234-238 accept;
* two hub objects with one address let it be taken twice at once, and again after a close; two
  addresses do not meet anywhere but in their files, and there the theorem `PeersFind` speaks of any
  number. Two directories, one of them beside the module, let `SetSecurityDir` move from the default,
  between two others' steps, and back. Threads and hubs are interchangeable (`Symmetry`);
* in `Trust` two names for a peer, one of them with two keys, let a hub hold one peer while another
  is refused, and let a refused call find an older key to put back. Of the three names only the
  remote one is dialled with a published key; the two hubs are linked;
* in `Delivery` three hubs are the shortest line with a relay, and two sends let a second message
  arrive inside the handler of the first. `Mixed` has a broadcast that is relayed, a topic over the
  relay, an upcast that wants no bounce and a post. The connection that may be lost is the first
  hop, so that a bounce on its way back meets the gap; the hub that may stop is the sender;
* in `ComHub` a queue of one and two events make it overflow, report the gap and recover; two sinks
  let one be unadvised by the handler of the other. The two runs split what clients do besides
  `Advise` and `Close` (unadvise and call; release and sweep);
* `SomeFiles` has a file for each way a topology is refused (a hub twice, an edge to an unknown hub,
  an unknown verb, a bad port behind a blank line, a serial map entry) and two that come up;
  `SomeTexts` one endpoint of each kind and family that resolving treats differently;
* three peers and four changes shift every position of a walk; `kTries = 2` for a value that the code
  keeps larger, because the property counts the tries.

`CHECK_DEADLOCK FALSE` is set where the system may stop: a client need not call again, and a closed
hub, a spent timer, a released network or a budget of pings, sinks, sends or changes leaves nothing
to do.

Fairness. Only the four runs with a liveness property use it.

* `HubCons`, `PingClose`: a thread that is inside a facade call keeps running (`WF(Continue(t))`), and
  so does the thread that closes: the operating system schedules both. Of the pump, the wire and the
  far hub nothing is assumed, which is the point: the code bounds every wait, so that a wedged pump or
  a silent peer costs the budget and no more.
* `Delivery`: a pump that has something to do takes a turn, and a client's callback returns. Nobody
  has to send, decline, dial again or begin a nested turn.
* `ComHub`: the pump, the dispatch thread and a thread in a call keep running (weakly fair), and a
  handler returns (strongly, because handlers may themselves call in between). Nobody has to advise,
  call or close.

## 4. Proofs

The proofs are for any number of threads, peers, pings, hubs, addresses, sinks, timers and messages.

* `HubConsProofs`: `TypeCorrect`, `RetiringRemembered`, `RecordsMatch`, `DrainIsComplete`, when no two
  threads name one peer (`Serialised`) and there is no Link (`NoLink`). Two threads on one peer show
  the first assumption is needed. The inductive invariant adds to the three properties what holds
  *during* a call: what a thread between record and post has overwritten (`prev`), that a doomed
  connection is on a peer that is being, or has been, disconnected, and that a caller about to settle
  knows what its wait saw. For the drain, which goes by rows and not by the kernel's list, it adds
  three facts of a peer no connection of which has ended (`Unbroken`): a `Disconnect` of it still finds
  its connection (`HeldInv`), it is down only because a `Disconnect` marked it, and is then remembered
  as unretired or about to be (`DownInv`), and once the snapshot is taken it is in it (`DrainInv`).
* `PingCloseProofs`: `TypeCorrect`, `WaitersAreOut`, `SuccessIsGenuine`, with no assumptions. The
  invariant says ids are fresh (`FreshIds`), a row belongs to one thread between register and leave
  (`OwnRow`), a row seen by a quiet close cannot exist (`CloseInv`), an answered row's echo arrived.
* `FacadeTimersProofs`: `TypesHold`, `NoneForgotten`, `NoneStray` with no assumption, and `NoneEarly`
  when the clock is stepped fewer times than the code may arm again (`MaxSteps < MaxRearms`). A row
  waits for its `SetTimer`, its message, the pump or the kernel (`WaitInv`, `QueueInv`), and the kernel
  holds no timer without one (`HoldInv`). For earliness the invariant (`ArmInv`) follows the distance of
  the two clocks, `top + frac - tick`, which only a step of the system clock changes: a deadline armed
  a second time is compensated for its truncation, so each early wake-up after the first costs a step
  of its own, and a row has been armed at most once more than there were steps.
* `HubRegistryProofs`: `TypeCorrect`; `NetworkIsDirectory` (`Spec => Directory!Spec`) with no
  assumption; `DeletedOnce` and `PumpsHaveKernel` when clients close only while they hold a
  reference (`RefToClose`), which is needed (section 5). The invariant says which thread is
  responsible for each hub that is live and not on the list, and what `instance` protects.
  `SecureNetworkIsNetwork` (`ProvSpec => Spec`) carries all of that over to a network with secure
  hubs, whose specification the run checks. `PeersFind` needs neither of the two assumptions, but
  that no two addresses in use share a file stem (`StemsApart`): the 32-bit hash may collide, and
  addresses that differ only in the case of a letter are not told apart by the file system
  (section 5). Its invariant says that a creation under way keeps to the latched directory and has
  written the halves it has come past (`Staged`), that a hub on the list or on its way there has what
  its creation left (`Kept`), and that a network goes only when nobody is making a hub (`Creators`).
* `NetworkProofs` is about three modules.
  * `DiagSink`: `DiagTypeCorrect` (with `busy` the number of threads in a delivery), `AskedClassesOnly`
    for any client, `FreedSinksRest` under `Careful` and `Prompt`.
  * `ReadSide`: `WalkIsTrue` and `ChurnOnly`. While no position has shifted since a walk began, all
    positions it has passed belong to other peers, and the name it read is the one at its position
    (`WalkInv`); a text read has seen its text change once for each attempt that did not fit
    (`TextInv`). Assumed: a hub has rows for peers in some order, each once (`ReadsAssumption`).
  * `Topology`: `EdgesMeet`, `HubsAllOrNone`, `BadLineFound`. An end that left its endpoint to the map
    agrees with the map for as long as that is the version it read, an end that was resolved meets
    the listener it was resolved from, also on its way there (`EndsInv`), and two ends of one `Link`
    or of one version of the map meet as soon as both are under way (`PairInv`). Below it are the
    lemmas about the grammar: what a listener is formatted to parses to what meets it
    (`ListenersParse`, `ListenSpelled`), and so does what is derived for a dial (`ResolvedMeets`). The
    hubs the topology's thread owns are those of the lines it has created less those it has closed
    (`MadeInv`), which rests on `HubLines` being in order and without repetition (`InOrderLists`, by
    `RankGrows`), and the line of a refused block is the least bad one (`FirstBadLine`, from
    `HasLeast` and `FirstIsLeast`). Assumed: a file is a sequence of lines, and the service derived
    for an edge is a name (`BoundsAssumption`).
* `TrustProofs`: `TrustListed`, `ArmedEnforced`, `RefusalWhole`, when calls on one hub come one at a
  time (`Serial`). `RefusalWhole` is about both refusals a `Listen` or `Connect` may meet: inside
  `TrustAndEnforce` the trusted set is back as it was found; in `ArmResolved`, after it, the grant is
  complete and stays. Calls under way touch different hubs (`Apart`); at each stage a call knows how far
  set, temporary file, file and list of its hubs have come (`Stages`); a hub no call is under way on is
  settled, and an armed hub is enforcing at every step (`HubInv`). One lemma per action shows the
  stage it leaves follows from the stage it found.
* `DeliveryProofs`: `DeliveryTypes`, `CurMsgHolds`, `BroadcastIsTrue` with no assumptions, and
  `ReportsOwed` under `Tree`. For the gate of the current message the invariant runs down the stack of
  turns: what is published is the innermost frame's message, and what each frame saved is its
  predecessor's (`ScopeInv`), so that the end of a scope restores. For broadcasts it relates posted,
  still to post, and the peers that were up always or ever since the snapshot (`CastInv`). For reports
  it says where every message came from (`OriginInv`: an exception that wraps no other goes to the
  sender of what it tells of, and names a peer that declined or could not be reached), that a message
  and a peer are together in one place at most, an inbox, a handler, a copy still to be posted or a
  report (`OnceInv`), and that whom a copy is still ahead of has had none (`FlowInv`). The last is
  where the tree is needed: with a second way to a hub a broadcast comes to it twice (section 5).
* `ComHubProofs`: `QueueIsStream` (`Spec => Stream!Spec`), `CurEventHolds`, `UnadvisedIsSilent`,
  `SinksHearAll`, `TeardownIsOnce` and `FreedIsLast`, with no assumptions. For what sinks hear, the
  event of a round is the last raised (`RoundInv`), an advised sink has heard a stretch that ends with
  it, or just before it while the round has still to come to that sink (`ListedInv`), and one that was
  unadvised a stretch that a round under way may add one to (`PastInv`). `UnadvisedIsSilent` says
  what `Unadvise` does promise: from its return on the sink is not fetched again, so it may hear at
  most the one event it was already fetched for. The last two are the deep
  ones: the reference count equals the references held by clients, the dispatch thread, the network's
  list, the creator and a sweep under way (`CountInv`), and each party lets go of its own only after it
  is out (`LifeInv`, which follows the owner pointer, the kernel's hub and the threads in `Close`).
  `FreedLast` follows from a sum that has come to zero.

Each argument is the same: the invariant holds at the start, every action keeps it (one step per
action), it implies the property, and the temporal step is a last line of PTL.

Every invariant and every action property that a run checks is the subject of a theorem. Only
model-checked are the five liveness properties (`CallsReturn`, `PingsAndCloseEnd`,
`BouncesAreReported`, `AcceptedIsRaised`, `CloseCompletes`): liveness under fairness and ENABLED are
out of the prover's reach. So is induction over data, so of what `Endpoints` computes only what the
theorems of `Topology` rest on is proved.

## 5. What the models showed

Places where the code does something other than a comment, a header or a note says, or, where
none says anything, than a client would expect. Those with a
property are stated by a definition of the module that no run lists because it does not hold; the
instance that refutes it is given, and is otherwise that of the module's run.

| Statement | Where it is said | Definition | Instance | What happens |
|---|---|---|---|---|
| a failed arm leaves nothing behind, the allow-list is put back | `Hub.cpp` 1405-1407 | `Trust!RefusalRestoresList` | one hub, one thread, `Own <- OwnOne`, `Published <- PublishedOne`, one key, `FilesFail = FALSE` | the rollback of a first peer writes an empty set: no line is appended, no `.allow.new` is made, the move fails (`Hub.cpp` 1958), and the refused peer stays in file and list |
| nothing is left behind by a failure | `Hub.cpp` 1405 | `Trust!RefusalLeavesNothing` | the run's | `ArmUnified` returns the failure of `ArmResolved` (`Hub.cpp` 1439: a duplicate, a factory that fails, a closed hub) after `TrustAndEnforce` succeeded: the new trust, its line in file and list and the enforcement stay |
| once a hub was provisioned out of it the security directory cannot move | `Network.cpp` 942-946, 960-963, `FacadeInternal.h` 471-473 | `Provisioning!LatchedByAHub` | the run's | `SecurityPaths` latches the directory (`Network.cpp` 755) before the revocation list is made: when that is refused, no hub was provisioned and the directory cannot be moved to a writable one |
| a refused post restores the record | `Hub.cpp` 1229-1230 | `HubCons!RecordMatchesCon` | `OwnShared`, one peer, two threads | the rollback (`Hub.cpp` 1250) puts back a record that another thread has since replaced |
| pings are out before the hub goes | `TargetFacade.h` 1183-1185 | `PingClose!CloseOutlastsPings` | two threads, `Owner = NoThread` | a thread in `Ping` that has no row yet, or that outlasts the budget (`Hub.cpp` 1019), is still inside |
| a hub is deleted once | `Hub.cpp` 1079 | `HubRegistry!HubDeletedOnce` | `RefToClose = FALSE` | `Close` of a client without a reference races the sweep of the last `Release` (`Network.cpp` 129), which does not set the latch |
| the replaced sink is quiet before it is freed | `TargetFacadeFn.hpp` 805-807 | `DiagSink!FreedSinkUntouched` | `Careful = FALSE` | only registering NULL waits; replacing one handler by another frees the old one at once (line 812) |
| the object stays alive, so a call that races a close is safe | `ComHub.cpp` 190-191, the text of P2PF_E_CLOSED | `ComHub!CallIsSafe` | two clients, `Ops <- Sinks`, one event, one sink | `Live` hands out the facade's hub, `CloseKernelHub` deletes it, the call goes on |
| a sink is not called after its `Unadvise` | what a client of a connection point expects; no line says so | `ComHub!UnadviseIsFinal` | the run's | `Fire` fetches the sink (`ComHub.cpp` 740) and calls it (745) with no lock held; `Unadvise` (1487-1502) may erase and revoke it and return in between |
| another callback than the message's gets P2PF_E_NO_MESSAGE | `TargetFacade.h` 1281-1283 | `Delivery!NoMessageInOtherCallbacks` | the run's | a nested turn in a handler runs `OnPost` or `OnPeerUp` with the outer message still published |
| no endpoint is derived as serial | `Hub.cpp` 1152 | `Topology!NoSerialIsDerived` | the run's | `ResolveDial` copies a sibling's serial listener |

Seen while modelling, with no property of their own:

* `MarkPeer` inserts a row for every close, so a dial that never logged in gets one from its first
  failed attempt (`Hub.cpp` 3649), where the notes of `DrainCons` (`Hub.cpp` 875-877) say that no
  entry is exactly a connection that never connected; such a dial is skipped as redialling;
* `CreateHubEx` checks the address and starts the pump without holding one lock over both, and
  `Close` takes a hub off the list before its pump stops, so two pumps may run for one address
  (`Network.cpp` 226-227 says a duplicate is rejected before anything is spawned). Only one of two
  such hubs is ever published, which is what `IsDirectory` shows;
* addresses are told apart by the case of their letters (`Network.cpp` 141-143) and `SecurityStemOf`
  keeps it, but file names on the platform do not differ by it: two secure hubs whose addresses do
  would load one identity, against `Hub.cpp` 1635-1640. `StemsApart` excludes it;
* two calls on one secure hub at once share its `.allow.new`, and each writes the list from its own
  copy of the set, so a line may be lost until the next grant (with `Serial = FALSE`, TLC finds it);
* `Link` refused on its second hub withdraws the peer from the first but leaves it enforcing
  (`Hub.cpp` 2114-2121 means it to), where `Network.cpp` 874-877 says both are left as they were found;
* `Disconnect` calls `OnPeerDown` on the caller's thread (`Hub.cpp` 3583), where `TargetFacade.h`
  47-49 says events come on the pump thread;
* `DrainCons` leaves the listening service of a peer whose row is down, as its notes say it leaves
  redialling dials;
* a hub linked to two hubs one of which is above the other (a–b, b–c and a–c, all addresses in one
  line) gets a broadcast of `a` twice, and if it declines it `a` is told twice; nothing in `Link`
  refuses such an edge. This is why `ReportsOwed` assumes `Tree`;
* `Link` that gives up on a listener does not put the peer in `m_setUnretired` (`Network.cpp` 655);
* `SetDiagSink(NULL)` answers S_OK whether its budget ran out or not, and `SetExtEvents(NULL)` does not
  wait for a pump thread that is in the old sink;
* `Broadcast` answers the last failure even when copies were posted, where `TargetFacade.h` 1006 says
  S_OK if at least one was;
* a second `createHubs` on one `Topology` fails on its own live hubs and closes them, where
  `TargetFacadeTopology.hpp` 201-203 says a failure leaves the process as it found it; an `arm` that
  fails halfway cannot be called again, because the edges it armed are refused; and the example at
  51-55 has comments behind its lines, which `parse` does not strip;
* a text that shrinks between the two passes of `BstrFromRead` or `EndpointFor` is handed on with the
  length of the first, the rest of the buffer unset;
* `RelationTo` may say it does not know a peer that was armed throughout, because the positions
  shift under its walk;
* in the COM tier an event queued after the dispatch thread's last drain goes unraised and unreported;
  a sink call may meet a hub pointer that is not stored yet or is cleared, and the network's list may
  be reached through an owner that is gone (`fault` of `ComHub`).

## 6. Not modelled, and why

* The kernel is not in the repository. What it does to connections, timers, messages and files is
  modelled as far as the code relies on it.
* Redialling: `RetryDialDmx` is one counter whose steps are the kernel's restarts; without the
  kernel's schedule a model would say what its three lines say.
* Messages: a builder of named fields owned by one thread. Payloads, names, fields, tags and
  priorities of a message are data that no handler of the facade decides by.
* The scanner of endpoint characters, and `ClassifyPeer`, which only chooses a success code.
* Connection options and `CloseIdleCons`, `GetPending` and the time budget of `Pump`.
* Of security: pattern listeners, a revocation list that changes, and `GetSecurityInfo`; what the
  library does inside `ProvisionAuth`.
* Of the COM server: the network's own events, the message object, the marshalling of arguments, and
  the last network reference dropped inside a handler.
* Of the C++ wrapper: everything but `onDiag`; it forwards calls.
* The module entry has no state; tests, tools and examples are not part of the system.

## 7. What is left

1. Overlapping raw calls of `SetDiagSink`, and the kernel's slot read by a thread that enters late.
2. `Trust` over the keys that `Provisioning` leaves, instead of keys given.
3. `CloseIdleCons` and the connection options in `HubCons`.
