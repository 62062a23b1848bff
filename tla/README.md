# FlightDeck X in TLA+

FlightDeck X is a rocket flight demonstrator of three processes. A C++ simulator
(`src/generator`) flies at 100 Hz and sends each step's telemetry over UDP. A
TypeScript streaming server (`src/server`) validates, counts and keeps the
telemetry and streams it to browsers over WebSocket. It also carries the browsers'
fault commands back to the simulator over TCP. A React dashboard
(`src/dashboard`) shows the flight and sends the commands.

This directory models those processes, checks the models with TLC and proves
theorems about them with TLAPS. `PROJECT.json` links every definition to the
lines it models and lists the runs, the mutated definitions each property is
tested against, the hazards and the theorems.

## The system

| Part | State it keeps | Operations | What makes it correct |
|---|---|---|---|
| SPSC queue (`spsc_ring_buffer.hpp`) | slots, `head_`, `tail_` | `try_push` (one thread), `try_pop` (one other) | FIFO, no loss, no data race, refuses only when full |
| UDP transmitter (`udp_transmitter.cpp`) | `running_`, socket, worker, counters | `start`, `try_send`, `run`, `stop` | never delays the caller; drains on stop; in order; counts agree |
| Control server (`control_server.cpp`) | `fault_flags_`, one client | `start`, `run`, `handle_client`, `handle_command`, `stop` | flags follow the commands; every record answered; stop ends the worker |
| Main loop (`main.cpp`) | step count | snapshot the flags, step, send | one snapshot per step; clean shutdown |
| Flight simulation (`flight_simulation.cpp`) | phase, kinematics, mass | `step`, `set_thruster_loss` | phases in order; the flight ends |
| Wire format (`protocol/`, `server/src/telemetry.ts`) | none | `serialize`, `deserialize`, `decodeTelemetry` | round trip; the same verdict in both languages |
| Packet receiver (`receiver_main.cpp`) | counters, latest sequence | one loop | losses and reordering counted across the wraparound |
| Sequence tracker (`sequence-tracker.ts`) | latest, lost, reordered | `observe`, `reset` | the same |
| History (`circular-buffer.ts`) | array, start, length | `push`, `clear`, `toArray` | the latest `capacity` samples in order |
| Streaming server (`server.ts`) | history, tracker, clock, metrics, clients | `acceptPacket`, connection, client message, broadcast | one flight at a time; metrics, history and clients agree |
| Control client (`control-client.ts`) | pending commands, socket, timer | `send`, connect, data, close | commands retained until acknowledged; resent in order |
| Dashboard hook (`useTelemetry.ts`, `telemetry-utils.ts`) | samples, pending samples, animation frame, command state | messages, flush, reconnect, send a command | shows the server's flight; commands do not hang |
| Mission events (`mission-events.ts`) | none | `deriveMissionEvents` | no event lost to decimation |
| Views (`App.tsx`, `RocketView.tsx`) | leg and fin animations, two refs | a frame; the fault buttons | legs and fins follow the flight; buttons follow the link |
| Demo supervisor (`demo.mjs`) | child processes | launch, shut down | a cause to end reaches every child |

They interact as follows. The main loop reads `fault_flags()` of the control
server's thread, steps the simulation and hands the packet to `try_send`. The
transmitter's worker pops it from the ring and calls `sendto`. The server's UDP
handler runs `acceptPacket`, which broadcasts to the WebSocket clients; a client
that connects first gets the history. A browser's command goes through
`#acceptClientMessage` to the control client, over TCP to the control server,
which sets or clears a flag and answers; the answer is broadcast.

The hard behaviour is in three places. In the simulator, two threads share the
ring and `running_` without locks. On the network, UDP loses and reorders while
the simulator, the server and the browsers are restarted independently, and each
side must notice from the packets alone. On the control link, a command, its
acknowledgement or the whole connection may be lost at any point, and the
simulator serves one connection at a time. Two smaller places are the end of the
processes (a worker thread that must be joined whatever it is waiting for, three
children and two timers in the supervisor) and the browser, where one command
state stands for the commands of all pages and one animation mixer for two groups.

## The modules

| Module | Models |
|---|---|
| `BoundedFifo` | abstract: what the SPSC queue promises |
| `SpscRingBuffer` | `spsc_ring_buffer.hpp` |
| `UdpTransmitter`, `MCUdpTransmitter` | `udp_transmitter.cpp`, over the ring |
| `RecentWindow` | abstract: the latest `capacity` samples |
| `CircularBuffer` | `circular-buffer.ts` |
| `SequenceTracker` | `sequence-tracker.ts`, and the accounting of `receiver_main.cpp` |
| `TelemetryServer` | the telemetry half of `server.ts`; uses `SequenceTracker` and `RecentWindow` |
| `CommandService` | abstract: what the server promises the browsers about commands |
| `ControlLink` | the command half of `server.ts`, `control-client.ts`, and `control_server.cpp` as seen from the wire; refines `CommandService` |
| `CommandPanel` | the command half of `useTelemetry.ts`, the buttons of `App.tsx` and the server's side of them, over `CommandService` |
| `Dashboard`, `MCDashboard` | the telemetry half of `useTelemetry.ts`, `telemetry-utils.ts`, `mission-events.ts` |
| `WireFormat` | `protocol/src/telemetry.cpp`, `server/src/telemetry.ts` |
| `FlightPhases` | the phase machine of `flight_simulation.cpp` |
| `VehicleView` | the legs and fins of `RocketView.tsx`, drawn from `FlightPhases` |
| `SimulatorProcess` | `main.cpp` with the threads of `control_server.cpp` |
| `DemoSupervisor` | `demo.mjs`, composed with `SimulatorProcess` |
| `MCSequentialParts` | for TLC: one of `CircularBuffer`, `SequenceTracker`, `WireFormat`, `VehicleView` at a time |
| `UdpTransmitterProofs` | theorems about `SpscRingBuffer` and `UdpTransmitter` |
| `TelemetryPartsProofs` | theorems about `CircularBuffer`, `SequenceTracker` and `WireFormat` |
| `TelemetryServerProofs`, `ControlLinkProofs`, `CommandPanelProofs`, `DashboardProofs`, `VehicleViewProofs`, `DemoSupervisorProofs` | theorems about the module each is named after; `DemoSupervisorProofs` also about `SimulatorProcess` |

A definition named `X_What` is `X` with one plausible mistake. No specification
uses it; it is there so that each property can be seen to fail.

### SpscRingBuffer

One action per shared access another thread can observe: the loads and the test
(`PushRefused` or `PushBegin`), the slot write (`PushWrite`), the release store
(`PushPublish`), and the same four for `try_pop`. The C++ memory model is
represented in two ways. An acquire load may return any value the index had
since the last one seen: `tailVisible` and `headVisible` trail the real indices
and catch up one store at a time (`TailReachesProducer`, `HeadReachesConsumer`).
And a slot access that no acquire load has ordered yet is remembered
(`unorderedWrites`, `unorderedReads`); `NoDataRace` says that no thread touches a
slot while the other thread's access to it is unordered.

### UdpTransmitter

Extends the ring. The caller (`callerPc`) is outside, inside `try_send`, or
joining; the worker (`workerPc`) is at one of the two tests of the loop
condition, in `try_pop`, at `sendto`, or gone. `running_` is read late as well
(`runningVisible`), except that reading the `false` that `stop()` stored orders
every push before it: then `headVisible` is the last `head_`. Starting a thread
and joining it order everything. The 100 µs sleep changes nothing and is left
out. A `sendto` succeeds or fails, freely.

### TelemetryServer

Each Node handler runs to its end, so each is one action. A packet is the run of
the simulator that sent it, its step and whether it is intact; its sequence
number and its timestamp are the step, which holds for a fixed-rate loop. The
network loses and damages packets. What it may reorder is chosen at the start:
`fifo` keeps order; `behind_first` reorders anything except that packet 0 is
neither lost nor overtaken; `any` has no such limit. A client folds the messages
it reads into what it holds (`Apply`); this stands for any client, and the
dashboard's own reduction of the samples is not part of it.

The loops are recursive functions here and in `Dashboard` (`Apply` over the unread
messages, `displaySamples`, `deriveMissionEvents`, the updaters that wait for a
render), so that theorems can be about what they compute.

### ControlLink

A command's identifier is its position among the accepted ones. A connection is
a queue of identifiers towards the simulator; `backlog` holds the connections
the kernel has completed, served one after the other. A broken connection loses
a suffix of what was under way in both directions; what arrived is still read by
the simulator. An exit of the simulator loses its flags and connections; a prefix
of its answers still arrives. The reconnect timer is the fairness of `Connects`.
The streaming server itself may stop or crash between any two steps
(`ServerRestarts`): its `Map` of pending commands is gone, and `forgotten`
remembers which, so that the promises are stated for the others. `Service`
instantiates `CommandService` with the accepted and the pending commands, and
`ImplementsService` shows each step to be one of its steps or a stutter.

`#acceptClientMessage` also rejects malformed JSON and invalid commands. These
answers change no state and are left out. Command identifiers come from
`crypto.randomUUID()`, so no two commands share one.

### CommandPanel

Extends `CommandService`, so that everything below the server is one step: the
command is accepted, acknowledged or forgotten. It is acknowledged at most once,
however often it was resent: `#pending` is deleted from by identifier. On top are the pages. Each has a
WebSocket whose two sides notice a break separately: the server broadcasts only to
sockets it holds open, the page reads what had arrived and then runs its "close"
handler. `commandState` and `controlConnected` are the React states. `cutOff` is a
history variable: the pages whose socket broke since their last command. A command
clicked on a socket the page does not know to be broken is lost, as in the code. Of
what is under way on a socket that breaks any prefix may arrive, also when the server
ends; a server that is stopped reports the link as down first, as `stop()` does.

### Dashboard

One action per callback of the hook: the WebSocket's `open`, `close` and `message`,
the reconnect timer, the animation frame (`Flush`), and React's render. The
updater that `flush()` hands to React is either applied in the same step, which
React may do when the component has no update waiting, or kept in `updates` until
`Renders`: React chooses anew at every call, within the constant `UpdaterRuns`. The
updater reads `replaceWithHistory` when it is applied, as its closure does. Two
history variables serve the properties. `stream` is what the server sent this page
since the last replacement. `replaceLost` says that a replacing updater was put off
while there was something to replace, so that it will append. The server is only what its messages are:
samples in order with gaps, a reset before the first sample of a new flight, the
history on connection. A new flight is known by its packet 0, unless the packet
before it had number 0 too: the run before was only its first packet, and
`acceptPacket` compares the numbers. What a server does with late packets is
`TelemetryServer`'s: late packets do not reach the page in this model, although the
server appends and broadcasts them like any other.
A sample's timestamp is its sequence number. Its speed is `descentRate`, a function of
the step, which `deriveMissionEvents` reads of the sample before a landing to call it
soft, hard or an impact (`TouchdownLabel`).

### WireFormat

A datagram is 163 symbolic bytes, each naming the scalar it belongs to and its
shift in it. The layout is there three times, as in the code: `WriteOrder` is the
sequence of writes of `serialize`, `ReadOrder` the sequence of reads of
`deserialize` with the offset they move (`ReadOffset`), and `TsReads` has the literal
offsets of `decodeTelemetry`. The sizes, offsets and identifiers are there twice,
as the C++ constants and those of `telemetry.ts`; only the members' types are shared.
Reading bytes that are not one scalar in big-endian order gives `Garbage`. The bytes
are there one by one for the layout alone, which is what can go wrong between the two
languages. Values exist only for what is tested: magic, version, phase, finiteness,
and whether a double holds the timestamp, since `Number(getBigUint64())` rounds from
2^53 on. That CRC-32 detects any change within one byte is
taken from its mathematics, and at most one byte is damaged; a damaged magic or version
may become the current one. Packets of other
versions and with fields that are not sane stand for other programs; the
simulator sends none.

### FlightPhases and VehicleView

`FlightPhases` keeps of `FlightSimulation::step` what its guards compare: the sign
of the vertical velocity and the altitude as below the ground, on it, up to 75 m,
and above. An action is a `case` of the `switch`; burn time, propellant, predicted
apogee and stopping distance decide when a phase ends and are left free. Two
things follow from the numbers and are built in: with the full thrust the vehicle
accelerates upwards, with 60 % of it not necessarily (180 kN against 196 kN of
weight at liftoff), and the landing burn never turns the fall into a climb.

`VehicleView` draws a frame of the present sample; between two frames the flight may
take any number of steps. `MovesLegs` and `MovesFins` are
the two `if` chains of `useFrame`, each returning both groups of actions because
`mixer.setTime` reaches both. What three.js does is external and short: `reset()`
goes to time 0, a paused action does not advance, an action played to its end is
paused (`LoopOnce`, `clampWhenFinished`), and `setTime(t)` sets the time of every
action to 0 before it advances them. A page that does not look away draws at least a
frame of each countdown and one of a landing burn's fall below 75 m (`Unmissable`);
with `LooksAway` these may pass unseen too, as on a hidden page or one opened late.
Three history variables speak of the flight and not of the guards of the code:
`thrustLost` (thrust was lost in the ascent of this flight), `shownLost` (the same of
the flight on the screen) and `wasLow` (a frame of this flight showed a descent or
landing burn falling below 75 m, or the vehicle landed).

### SimulatorProcess and DemoSupervisor

`SimulatorProcess` has the main thread (`mainPc`) and the worker of `ControlServer`
(`workerPc`). `stop()` is taken store by store: `running_`, the closed socket, the
cleared `socket_fd_`, the join. `socket_fd_` is a plain `int` that the worker reads
without synchronisation; every use of it may find the old value or the new one,
and `FD_SET(-1)`, which is undefined, goes on or aborts the process. The timeouts of
250 ms are the freedom of `Selects` and `ReceivesNothing` to return without data.
The answer to a client that has gone raises SIGPIPE; a client may also leave before
it was accepted. The transmitter appears only
as starting, failing to start and stopping; `UdpTransmitter` has the rest. When
the process ends its memory is reset, which keeps the state space small.

`DemoSupervisor` extends it with the children of `demo.mjs`: what became of each,
whether its event has been handled, and the two timers, which may expire in any
order because they are set at different times. A service may end at any time, fail
to start, or ignore the signal. That the supervisor ends is liveness (`DemoEnds`);
that it leaves no child behind, neither ended nor signalled, is an action property
of its exit (`ExitsAfterSignalling`).

## Runs

| Run | Bounds | Distinct states | Shows |
|---|---|---|---|
| `udp` | capacity 2, 5 calls of `try_send`, any `start`/`stop` between | 55 620 | the ring: no data race, a drop only at capacity, refinement of `BoundedFifo`; the transmitter's safety and liveness |
| `parts` | history: capacity 4, 5 values; tracker: modulus 8, 12 ordinals, 6 arrivals; wire: every single damaged byte, 2 magics, 2 versions, 2 phases, any one number not finite, 3 foreign sizes; view: 2 flights | 68 664 | refinement of `RecentWindow`; exact counters across the wraparound; both decoders read what was written and nothing else; legs and fins follow the flight |
| `landed_late` | 1 flight, landing burn not drawn | violation | a page opened after the landing shows no legs |
| `relay` | 2 runs of 5 steps, history 3, 2 packets in flight, 1 client with 2 unread messages | about 690 000 | the server's telemetry half |
| `relay_first_late` | one run of 4 steps, any reordering | violation | a late packet 0 wipes the history |
| `control` | 2 faults, 3 commands, 2 failures (connection, simulator or server), 1 refusal | 358 134 | the command path, safety and liveness; refinement of `CommandService` |
| `control_resend` | 1 fault, 2 commands, 1 failure | violation | a resent command undoes a newer one |
| `dashboard` | 2 flights of 3 samples and 2 phases, stride 2, 3 samples shown, 1 break, 1 message or a reset with its sample unread | 1 559 463 | the page settles on the server's metrics and loses no transition, whichever updaters React puts off |
| `dashboard_replace` | the same, updaters called in the render | violation | a replacement becomes an append |
| `panel` | 2 pages, 2 faults, 2 commands, 1 break or restart, 1 change of the link | 498 104 | what the pages show is true, and commands end on a page that stays connected |
| `panel_offline` | 1 page, 1 command, 1 break | violation | a command stays pending for ever |
| `demo` | flights of 2 steps, every 2nd packet dropped, 1 client with 1 command | 126 211 | one snapshot per step; the processes end; no child is left unsignalled |

The bounds are small and chosen so that the interesting cases occur. In `udp`
the ring of three slots wraps, overflows, drains and is used again after a
restart, and every slot is reused in every role. In `parts` twelve ordinals pass the modulus of eight, and arrivals up to half a
cycle apart include the boundary value. In `relay` a history of three drops
samples, a run is longer than the clock tolerance of two steps, a packet may be
two behind, and the new run meets history of the old one. In `control` three
commands cover two for one fault and one for another, with two failures a
connection can break again during the resending, or the simulator can exit in
between, or the server restart with part of them applied. In `panel` two commands
let a page see the acknowledgement of the other page's command or of its own
earlier one, and the break can fall before or after each message. In `demo` the
second step is one that may be dropped, and the command can arrive between the
snapshot and the drop; the client can be silent, in the backlog or gone when
`stop()` begins. In `parts` the second flight meets the legs and fins of the first.
In `dashboard` the stride drops the sample between two kept ones, the
list of three is filled and trimmed, and a connection or the server breaks with
samples pending and a frame requested. The data paths are symmetric in what they carry; more of the same adds
no new order of events.

The deadlock check is on except where a bounded model really ends: `ControlLink`
when its commands are issued and acknowledged, `CommandPanel` likewise,
`Dashboard` when its flights are shown, `MCSequentialParts` after one datagram,
`DemoSupervisor` when everything has ended.

## Fairness

- `UdpSpec`: both threads are scheduled by the operating system, and a store
  becomes visible to the other thread in finite time (the C++ standard asks for
  it). Nothing obliges the caller to call `try_send` or `stop`.
- `ControlLink`: timers fire and callbacks run in Node (`Connects`, `TakesAck`,
  `SeesClose`), the control server's worker runs (`HandlesCommand`,
  `AcceptsNext`), and the simulator is started again after it ends
  (`SimulatorStarts`: the acknowledgement needs a simulator; this one is an
  assumption on the operator, not on the code). Failures are finitely many
  (`MaxBreaks`): with endless failures no acknowledgement can be promised.

- `CommandPanel`: timers and callbacks run in the browser and in Node. The link to
  the simulator comes up again, and what the service keeps gets acknowledged: this
  is `ControlLink!EventuallyAcknowledged`. Clicks, breaks and changes of the link
  are not fair.
- `DemoSupervisor`: Node delivers the children's events and its timers, the
  operating system runs the simulator's two threads and delivers SIGTERM. No
  service is obliged to end, not even after the signal, and no client to speak.

## What the violations show

- `relay_first_late`. `acceptPacket` takes sequence 0 for a restart whenever the
  latest sequence is another. If UDP delivers a flight's packet 0 after its packet
  1, the history and the metrics are wiped in mid-flight, where
  `protocol/telemetry.md` says that such a packet is counted as reordered.
  `relay` shows that late packets other than the first are handled as documented.
- `control_resend`. After a broken connection the pending commands are written
  again from the oldest, also those already applied. An older command then takes
  effect after a newer one, for as long as it takes to resend the newer. README
  says commands must arrive "reliably and in order". `SettledOnNewest` shows that
  the flags end right.
- `dashboard_replace`. `flush` queues an updater that reads `replaceWithHistory` and
  clears the variable at once. If React calls the updater in the next render, it
  finds the variable cleared and appends. Two flights are then shown together,
  where `docs/demo.md` says that everything resets at the new flight boundary.
  `EventsSurvive` shows that the list is right unless this happened (`replaceLost`);
  `TransitionsShown` that even then the current flight is shown without a gap.
- `panel_offline`. Acknowledgements are broadcast once, to the sockets open at that
  moment. A page whose socket breaks after its command shows it as pending for
  ever, with that fault's button disabled, although the command is carried out.
  `PendingEndsOnline` shows that the rest of the path is right: a page whose socket
  holds always learns the outcome, whatever the control link and the server's
  connection to the other page do.
- `landed_late`. When the first frame a page draws is of a landed vehicle, the legs
  are played to their end and paused, and then the fins' `setTime` sets them back to
  the start. Nothing moves them again. `GearFollowsFlight` shows that legs and fins
  are right on a page that saw the fall.

Four more disagreements between the documents and the code have no run of their own.
Each shows in the text of a definition, or in what a property has to leave open.

- The legs in an ascent. They go out on any frame that shows a fall at 75 m or below
  (`FallsLow`), whatever the phase. With thruster loss from liftoff the thrust is below
  the weight and the vehicle sinks during `POWERED_ASCENT`: the legs go out then and
  stay out while it climbs later, where `README.md` has them deploy "during the final
  50–100 m of descent". The model has these flights; `GearFollowsFlight` therefore
  exempts them (`shownLost`), and shows that in every other flight the legs are out
  from the end of the descent on and not before.
- The label of a landing. `deriveMissionEvents` takes it from the speed of the sample
  before, in a list that decimation has thinned to every fifth packet (`TouchdownLabel`). A
  vehicle still braking is called after an earlier, faster sample than the last one in
  flight: `HARD LANDING` for what `docs/test-results.md` defines as a soft touchdown.
  The flights of `MCDashboard` do this (6, 2, then 0 m/s); `EventsSurvive` therefore
  compares what happened and when, not the labels.
- The samples that wait for a frame. Every retained sample goes to `pending`, and only
  an animation frame empties it (`Flush`). Browsers hold frames back in a hidden page
  while its WebSocket goes on. Nothing but the next flight or history ends the growth,
  where `README.md` says that every queue is bounded. With the shipped settings a flight
  ends after 69 s and about 1400 retained samples, below the 2000 of the list; one of
  more than 100 s exceeds them. `TypeOK` bounds the list shown and leaves `pending` open.
- The end of the demo. `docs/demo.md` says that `npm run demo` shuts all three processes
  down when the flight ends, but `demo.mjs` launches the simulator with
  `endsDemo = false`, and its end is only logged (`DemoEnds` names the causes the code has).

## Proofs

The first part of `UdpTransmitterProofs` is about the ring alone. It proves, for
every `Capacity` above zero and every set of values, from `CapacityAssumption` and `NoValueAssumption`:

- `RingInvariant`: `RingInv` is invariant. The property `NoDataRace` is not
  inductive by itself. It needs to know that the slot being written is free and
  the slot being read is filled, although each thread decided so from an old
  index. `IndexOrder` carries that: going round the ring one meets the tail the
  producer sees, the real tail, the head the consumer sees and the real head, in
  this order and within one turn. `InsidePush` and `InsidePop` say that the test a
  thread made stays true because indices only move away from it, and `Filled`
  ties the slots to what was pushed.
- `RingHasNoDataRace`: the property follows.
- `RingImplementsFifo`: each step is a step of `BoundedFifo` on the slots from
  tail to head, or a stutter. A push takes effect at the release store of `head_`,
  a pop at that of `tail_`.

The second part is about the transmitter. `UdpInvariant` adds to the ring's invariant
where the two threads are (`CallerShape`, `WorkerShape`), the conservation of
packets and that the socket outlives the worker. Its central fact is that a worker
past the test of `running_` sees the last `head_`; `UdpDrains` follows from it.
`UdpSendsInOrder` needs `Ordered` besides: the packet sent last, the queue and the
packet being offered increase. The proofs of the ring are reused through the
lemmas that each transmitter step is a ring step or leaves the ring alone.
`start()`, `join()` and the test of `running_` also order accesses and make an index
visible at a jump, which no step of the ring does. So that the ring keeps its
promises under them too is stated of the transmitter: `UdpHasNoDataRace` and
`UdpImplementsFifo`, the latter across any number of stops and starts. `UdpCapacity`
is about the counters: `try_send` counts a drop only when `Capacity` packets wait, those
included that the worker has taken since the caller last read `tail_`; the worker finds
the queue empty only when no packet waits but those published since it last read
`head_`; and never do more than `Capacity` wait. It needs the conservation of packets
(accepted = handed on + in the ring) and the cyclic order of the index views
(`IndexOrder`).

`TelemetryPartsProofs` has three parts. The first proves `BufferInvariant` (the indices
stay in the array and `toArray()` holds no unused item; no run checks it, because the
refinement shows it) and `BufferImplementsWindow` for every capacity. Its arithmetic is that an index plus at
most one turn wraps at most once.

The second proves `LatestIsNewest`, `CountersAddUp` and
`LossIsBracketed` for every even modulus from 4 on. They are inductive together
with the types and the fact that a fresh tracker has seen nothing
(`TrackerInvariant`). The core is the lemma `DeltaIsDistance`: the distance the
code computes from two numbers modulo `SeqModulus` is the distance of the ordinals,
if that is at most half a cycle, with the boundary counted as behind.

The third is about the datagram, for all magic numbers, versions and phase bytes of
senders and all sizes of foreign datagrams (`SizesAssumption`). The invariant
`WireInv` says that a datagram is foreign or is, except in damaged bytes, what
`serialize` wrote.

- `WireOnlyIntactAccepted` follows from it by what a decoder has read before it
  accepts: a magic number no foreign byte stands for, and a checksum whose own four
  bytes and the 159 before are undamaged. The proof uses nothing of the network's
  limit of one damaged byte beyond what `ChecksumMatches` says; that limit is what
  justifies `ChecksumMatches`.
- `WireRoundTrip` needs the layout. It claims every number serialized of both receivers,
  but of the streaming server's timestamp only up to 2^53. `At` gives the place of each member; the lemmas
  `Layout`, `ReadOffsets` and `TsOffsets` show that the bytes `serialize` appends, the
  offset `deserialize` moves and the literals of `decodeTelemetry` all agree with it,
  and `ReadsBack` that a number read there is the number written. `Written` and
  `ReadOffset` are recursive functions over sixteen and fourteen steps: a lemma for
  one step, applied that often, replaces the induction.
- `WireSameVerdict` compares the two orders of tests.

`TelemetryServerProofs` proves `TypeOK`, `MetricsAddUp`, `HistoryInOrder`,
`OneFlightInHistory`, `LateIsReordered` and `ClientsConverge` for any number of runs
and clients, any history capacity, and runs shorter than half a cycle of the
sequence numbers (`RunsAssumption`).

- `ServerCounts` ties metrics, tracker, clock and history together: they speak of
  the packets accepted since the last reset. `MetricsAddUp` needs all of them,
  because a reset clears each by another line of the code.
- `PathInv` is about packets under way and packets taken. `SentInOrder`: they keep
  the order the simulator sent them in. `PathRuns`: only a path that keeps order
  holds packets of two runs. `FirstOnItsWay`: packet 0 of a run is under way until a
  packet of the run was taken; `FirstTaken`, `TakenFirst`: nothing overtakes it.
- `OneFlightInHistory` is claimed for paths other than `any`, and so is the theorem
  (`"any" \notin Orderings`); the run `relay_first_late` shows why. `LateIsReordered`
  needs `Prompt` besides: a packet is delayed by no more than the clock tolerance. A
  packet that is later than this is a restart to the code, as its clock says.
- `ClientsConverge` speaks of what a client holds after it has read everything. The
  invariant `Converging` says of each function that steps from what the client holds
  through the messages under way that it ends in the server's history and counts. A
  lemma shows that there is such a function and that the recursive one of the
  property is one.

`ControlLinkProofs` proves `TypeOK`, `RetainedUntilApplied`, `SettledOnNewest` and
`LinkImplementsService` for any faults, number of commands and number of failures.
The invariant `LinkInv` describes the four places in which a command can be:

- `PendingOrdered`: `#pending` is in the order of acceptance and newer than
  everything acknowledged, which is why resending from the oldest never resends an
  acknowledged command. `QueuesUnacknowledged` says it of every connection, also of
  those broken and not yet read by the simulator.
- `AnswersInOrder`, `AnswersFromOpen`, `OpenQueue`: answers are to the oldest pending
  commands, over the connection now served, and what is pending over an open
  connection is what was answered followed by what is still to be read.
- `DeadAnswers`, `NewestHolds`: the answers of an exited simulator are read before a
  new one applies anything, and for each fault the flag is that of the newest
  command answered. This carries `SettledOnNewest` over breaks, resending and
  restarts of either process.

`CommandPanelProofs` proves `TypeOK`, `StatusShown` and `ShownAsIssued` for any pages
and faults and any set of positive identifiers. `PanelInv` says that a
request under way was not accepted before and is under way once (`RequestsNew`),
that acknowledgements under way are true (`AnswersTrue`), that the last status under
way to an open page is that of the link (`StatusComing`: a page with none under way
shows it already), and that a closed page shows the link down (`ClosedShown`).

`DashboardProofs` proves `TypeOK`, `MetricsShown`, `TransitionsShown` and
`EventsSurvive` for any number of phases, stride, list size, server history and
clock tolerance, from `SizesAssumption`, `BoundsAssumption` and
`undefinedAssumption`. The parts of `DashboardInv`:

- `OrderInv` orders the samples in the stream and in the messages under way. From it
  follows that a telemetry message never starts a new flight on the page by itself
  (`TelemetryContinues`): a `reset` or a history is always ahead of it.
- `LatestMetrics` and `PacketAge` say where the latest metrics are (in the last
  message, waiting for the frame, or shown) and what the packet age stands for.
- `Coming` is the central one. `Reduces(list, s)` says that a list keeps of the
  stream `s` the samples `shouldRetainSample` calls for, in order, with nothing else
  in it; `Left` allows that a full list has dropped older ones. `Coming` says that
  whatever the updaters waiting make of the list, followed by the pending samples,
  ends in such a reduction. "Ends in" is what remains true when a replacement has
  become an append (the run `dashboard_replace`). As long as that has not happened the
  list is the reduction itself (`Intact`), and `EventsSurvive` needs that.
- `displaySamplesReduces` shows that reducing the list for display leaves a reduction
  of it. A reduction has the mission events of the stream, each at its sample but with
  the label of a landing left open (`Occurrences`); that is part of `Reduces`, because a
  list that grows by a sample must keep it.

`VehicleViewProofs` proves `GearFollowsFlight` for any number of flights. In
`VehicleInv`, `FlightInv` has what each phase says of the motion: a vehicle before its
launch or after its landing stands still on the ground, one that lost no thrust climbs
until its descent, one in descent does not rise. So a fall below 75 m belongs to a
descent unless thrust was lost (`FallsInDescent`). The rest holds on a page that does
not look away (`~LooksAway`). `Follows` says how far the frame on the screen may lag
behind the flight: a vehicle that has landed was drawn below 75 m before, and what is
drawn of a late phase belongs to the flight that goes on or to the one before the
countdown. `GroupsFollow` says that `legsDeployed` holds from `wasLow` on and otherwise
only where `shownLost`, that the fins' flag holds exactly when a late phase is drawn, and
that each group of actions is where its flag says: at rest, or set off once and going on.
The core is the lemma `FrameMoves`: both groups are out before the landing is drawn, so
that the branch whose `setTime()` resets the other group is never taken. Without
`~LooksAway` it is taken: that is the run `landed_late`.

`DemoSupervisorProofs` is about the supervisor with the simulator's threads, for any
number of steps, clients and commands, and every `DropEvery` and set of faults with
the two of the code.

- `SimulatorTakesOneSnapshot`: `OneSnapshot` is inductive by itself, because only
  `Step` writes what it speaks of and reads the snapshot alone; the worker may set
  the flags at any point.
- `SupervisorLeavesNobody` needs `SupervisorInv`: a child counts as running to the
  supervisor until its event is handled, so one that has ended and is not yet
  reported is signalled without harm; during the shutdown every child still alive has
  been signalled; and the timer that starts the simulator does so once and not after
  the shutdown has begun.

What a recursive function computes for inputs of any length is reached without induction over an operator:
the set of arguments for which the claim fails has a least element
(`NatLessThanWellFounded`, `WFMin`), and the step from the argument before it
contradicts that (`SmallestOf`).

Three of these proofs corrected the model or what is said of it. That a new flight of `Dashboard` always
begins with a reset was not provable, and is not so when a run had only its packet
0. And `CommandService` allowed a second acknowledgement of a resent command, which
no step of `ControlLink` gives. And `DemoEnds` said two things, one of them no
liveness: that the supervisor signals before it exits is now a property of its own,
with a theorem.

TLC checks these properties too (of `BufferInv`, only what the refinement says), in the runs `udp`, `parts`, `relay`,
`control`, `panel`, `dashboard` and `demo`, on the instances of the table.

What is model-checked only:

- Liveness, which the prover does not handle: `StopEventuallyReturns`,
  `AcceptedIsSent`, `EventuallyAcknowledged`, `PendingEndsOnline`, `SimulatorEnds` and
  `DemoEnds`; and `TrySendNeverWaits`, which uses ENABLED.

So every safety property of the passing runs except `TrySendNeverWaits` is a theorem
as well.

## Not modelled, and the plan

`SmallestOf` and the lemmas on cut and appended sequences are stated both in
`TelemetryServerProofs` and in `DashboardProofs`; a module of such lemmas could serve
both.

Models that could follow: a new flight whose packet 0 is lost, in
`TelemetryServer`; a second TCP client on the simulator's port; sensor noise in
`VehicleView` (on the pad the measured velocity is negative half of the time, which
is enough to deploy the legs); late packets in `Dashboard`.

Left out for good: floating-point dynamics and orientation (no property is about
their values), rendering, the text printed by the programs, argument parsing, and
the operating system's sockets beyond what is said above.
