# A verification of sendspin-rs

`sendspin-rs` is a client of the Sendspin protocol: it keeps a WebSocket
connection to one music server at a time, estimates the server's clock, and
plays timestamped audio in step with every other player in the house. This
directory holds TLA+ models of its core, the TLC configurations that check
them, and proofs for TLAPS. All paths below are those of the repository; the
code is at commit state `src/`, crate sources in `src/src/`.

## 1. The system

### Components, their state and their operations

| Component (source) | State | Operations |
|---|---|---|
| **ConnectionManager** (`protocol/manager.rs`) | handshake semaphore, handshake tasks, the `established` channel, the driver's incumbent, last-played id and goodbye flushes, the application's two channels | accept, handshake, arbitrate, goodbye flush, `next_connection`, `set_last_played`, `disconnect`, Drop |
| **Connection** (`protocol/client.rs`: `WsSender`, `writer_task`, clock-sync task, `ConnectionGuard`) | unbounded command queue, writer, pending acknowledgements, three task handles | `send_message`, send and acknowledge, goodbye and close, `disconnect`, `closed`, Drop |
| **Router** (`protocol/client.rs`: `drive`, `message_router`, `StreamState`) | four channels with their *closed* flags, three atomic gates | hello exchange, route a frame, settle the gate, `request_stream_formats` |
| **Playback queue** (`audio/renderer.rs`: `PlaybackQueue`) | ordered buffers, buffer in hand and index, cursor with remainder, generation, `force_reanchor` | `push`, `clear`, `next_frame`, `first_playable_cursor_at_or_after` |
| **Drift correction** (`audio/sync_correction.rs`) | ring of readings, engage streak, schedule | `plan`, `update`, `set_callback_period`, `reset`, `admit` |
| **Renderer** (`audio/renderer.rs`: `AudioRenderer::render`) | started, generation last seen, floor of the presentation latency, counters, the above | one callback: snapshot, handoff, start gate, plan, moved cursor, frames |
| **SyncedPlayer** (`audio/synced_player.rs`) | shared queue, static delay | `enqueue`, `clear`, `set_static_delay`, build, Drop |
| **Gain** (`audio/gain.rs`) | three atomics; ramp | `set_volume`, `set_mute`, `gain`, `apply`, `advance` |
| **ClockSync** (`sync/clock.rs`, the clock-sync task of `protocol/client.rs`) | two-state Kalman filter, last sample, round trip | ping, `update`, conversions, `is_settled` |
| **PipeWire player** (`audio/pw_synced_player.rs`) | its thread, `running`, the reconnect channel, `last_error` | `new`, `reconnect`, `take_error`, Drop; set-up, loop, idle gap, process callback |
| **DeviceClock** (`audio/device_clock.rs`) | the samples a report may start from, the last one, the unit | `anchor`, `reset`, `update` |
| Listener, builder, messages, decoders, pool, raw clock, log sampling | little or none | see section 8 |

### How they interact

A peer's TCP connection goes through a handshake task of the manager, which
runs `drive()`; that exchanges hellos and starts the three tasks of the
connection, whose handles the `ConnectionGuard` owns. The guard travels with
the connection: handshake task, channel, driver, and at the end a flush task.
The application gets the channels and a `WsSender`, but never the guard.
The router feeds the channels, the clock and the stream gate. The application
decodes audio chunks and enqueues the buffers; the sound system's callback
thread takes frames from the same queue, under a mutex that it takes several
times per callback, and asks the clock, whose mutex it only tries. The clock-sync task
sends a ping on its own schedule; the router hands each answer to the clock with
the time it was read. With PipeWire the callback runs on the player's own thread,
which also connects the stream, serves `reconnect` and is joined by Drop.

### What is hard about it

- *Ownership.* Four owners of one guard in turn, each a task that can be
  aborted, time out or lose a race with the peer.
- *Arbitration* on state that other tasks change: the incumbent's liveness, the
  last-played id.
- *Cancellation.* Every future may be dropped at an await (`disconnect` under
  its deadline, callers of `send_message`), and an abort does not wait.
- *Lock scopes.* A callback reads the queue in one scope and acts on it in
  another; `clear`, `enqueue` and `set_static_delay` fit between.
- *Rounding.* Frames are not whole microseconds; timestamps are floors,
  durations are rounded to the nearest.
- *Noise.* Corrections are audible, so the planner must act on evidence only,
  and the clock must not take the network's jitter for drift.
- *A thread that may die*, at any step of its set-up, while the application polls
  for its error, asks it to reconnect, or drops the player.

The full list of hazards, each at its line, is in `PROJECT.json`.

## 2. The modules

| Module | Models | Uses |
|---|---|---|
| `ConnectionManager` | the managed life cycle, all tasks of `manager.rs` | refines `ServerLifecycle` |
| `ServerLifecycle` | what the manager promises: absent, pending, serving, leaving, closed | |
| `Connection` | the tasks of one connection | refines `GoodbyeFlush` |
| `GoodbyeFlush` | what the holder of a guard may rely on | |
| `MessageRouter` | hello exchange, routing, request-format gate | |
| `PlaybackQueueOps` | the queue's operations, as operators on a record | |
| `PlaybackQueue` | the queue over time, cursor moves left open | `PlaybackQueueOps` |
| `SyncCorrectionOps` | planner, filter and gate, as operators on a record | |
| `SyncCorrection` | drift correction over the callbacks of a stream | `SyncCorrectionOps` |
| `Renderer` | one callback's lock scopes against the application and the clock | both `...Ops` modules |
| `RendererReadings` | the renderer with the readings its filter should know of | extends `Renderer`, refines `SyncCorrection` |
| `Gain` | volume, mute and ramp | |
| `ClockSync` | pings, the network, answers, the filter and its conversions | |
| `DeviceClock` | the device clock's estimator, as operators on a record | |
| `PwPlayer` | the PipeWire player's thread, the application's calls and the process callback | `DeviceClock` |
| `ConnectionManager_proofs`, `ClockSync_proofs`, `PlaybackQueue_proofs`, `SyncCorrection_proofs` | the theorems | the module they are named for |
| `Client_proofs` | the theorems about the connection and the router | `Connection`, `MessageRouter` |
| `PlaybackQueueOps_proofs` | lemmas on the queue's operations | `PlaybackQueueOps` |
| `Player_proofs` | the theorems about the PipeWire player and the gain | `PwPlayer`, `Gain` |
| `Renderer_proofs` | the theorems about the renderer | `RendererReadings`, `SyncCorrection_proofs`, `PlaybackQueueOps_proofs` |
| `MC...` | values for TLC | |

`PlaybackQueueOps` and `SyncCorrectionOps` exist so that the queue and the
correction are checked alone, with inputs as hostile as possible, and then used
unchanged inside `Renderer`, where their interplay is checked. `SyncCorrection` is at
the same time the abstract specification of what the renderer does with the
correction: `RendererReadings` maps the renderer's record `r.corr` to it. `DeviceClock` is
used by `PwPlayer`, which feeds it what a real device may tell. Where one module of
proofs is about two specifications, those of one bear its name in front
(`RouterInit`, `CorrTypeOK`, `GainInit`).

### State and actions against the code

- **ConnectionManager.** One action per branch of each `select!` or match. The
  driver's branches have no await inside, so each is one step. `accept` is the
  accept loop's await, `task[c]` the attempt of a peer, `router[c]` the reader
  task whose handle `is_closed()` asks, `goodbye[c]` a flush task with its
  reason. An `EndFlush` gives up the guard, which aborts the reader. Of the
  transport it is only known whether its reader has ended; that this is enough
  is what `Connection` refining `GoodbyeFlush` says.
- **Connection.** `sent` keeps every command ever queued and `next` counts those
  the writer has taken. A frame goes out (`FrameOut`), then the flush may still
  fail. `aborted` holds abort requests: the runtime cancels a task at an await,
  so a clock-sync task that is `polled` runs on to its send.
- **MessageRouter.** A frame is what the router decides by; what it carries is
  its place in the stream. Each gate is stored in a step of its own
  (`SettleRole`) and loaded in a step of its own (`CheckRole`).
- **PlaybackQueue.** Buffers are a timestamp and a number of frames. `Taken` is
  the pop loop of `next_frame` in one expression: the first buffer that is not
  stale and has a frame left after the skip.
- **SyncCorrection.** `Settle` is a callback that takes the clock's mutex, which
  resets the filter if it is the first to find the clock settled; it may do no more
  than that, when it hands off or stays silent. `Measure` is the part of `render`
  from reading the error to the adopted schedule, the moved cursor of a gross error
  included, and comes only after a `Settle` of the clock's state. The variable
  `readings` is only for the properties: what the filter should know.
- **Renderer.** A callback is `Snapshot`, then `Sync` or `SkipSync`, then
  `Handoff`, then `Correct`, `StaysSilent` or `PlanBlind`, then `Render`: one
  action per lock scope. The clock's mutex is held from `Sync` to the end of the
  planning, so `ClockUpdate` waits. An update of the clock may give or withhold its
  conversions and settle it, once for all. `set_static_delay` is two steps, and a delay
  beyond `MAX_STATIC_DELAY_MS` is stored as that. The variables `handoff`,
  `heard` and `blind` are for the properties, as is `measured` in `RendererReadings`: the readings
  since the filter was last reset.
- **Gain.** Each load and store of an atomic is a step. Gains are whole steps of
  1/Unity, the ramp step rounded towards zero.
- **ClockSync.** `SendPing` is the clock-sync task between two sleeps, `Answer`
  the server, `Receive` the router's `server/time` arm with all of
  `ClockSync::update` behind it. The first sample, the two-sample bootstrap with
  its baseline and its signal-to-noise test, and both conversions are computed as
  in the code, with drifts as fractions; from the third sample on, where the code
  multiplies four floating-point matrices, the gain is a choice: the offset lands
  on the prediction or on the measurement, the drift anywhere in `Drift`,
  significant or not, plausible or not.
- **PwPlayer.** `thread` is the place in `run_pipewire_loop`: each test of
  `running`, each call of PipeWire and each read of the channel is a step, and
  `Process` may come between any two while the stream is connected. A request
  that the loop coalesces counts as served by the disconnect that follows.
  `device` and `broken` are for the properties: what the device really did.

## 3. Runs

Passing runs (the configurations bear the names of their modules):

| Run (configuration) | Properties | Instance |
|---|---|---|
| `arbitration` (`ConnectionManager_arbitration.cfg`) | `SingleOwner` `YieldedInOrder` `OnlyIncumbentServes` `PermitsConserved` `RejectedForALiveServer` `PlaybackNotPreempted` `KeepsLifecycle` | 3 peers, 1 slot, 3 hellos of 2 servers, 1 `set_last_played`, no `disconnect` |
| `manager_liveness` (`ConnectionManager_liveness.cfg`) | `DisconnectHonest` `BacklogAdmitted` `DisconnectAnswered` `DropReleasesAll` | 2 peers, 2 hellos, 1 `disconnect` call, *zero* slots configured, which the code takes for one |
| `connection` (`Connection.cfg`) | `GoodbyeIsLast` `WireHasNoGap` `OkMeansWritten` `DeadWriterFailsFast` `DisconnectOkIsFinal` `GuardReleases` `KeepsPromise` | 2 calls, 2 clock samples, under `FairSpec` |
| `router` (`MessageRouter.cfg`) | `ChannelsComplete` `RequestsJustified` | 4 frames of 12 sorts, 1 request for any roles, the audio and the message receiver may be dropped |
| `queue` (`PlaybackQueue.cfg`) | `TypeOK` `OneTimeline` `CursorCountsFrames` `GaplessIsLossless` | any 3 of 8 buffers, and every cut of an unbroken stream into 4; 1 moved cursor, 1 clear; 8 units to 3 frames |
| `planning` (`SyncCorrection.cfg`) | `CorrTypeOK` `FloorOfWindow` `CorrectsTheError` `DropsNeedEvidence` | readings of 7 values, windows of 2, 3 and 4, streak of 2 |
| `render` (`Renderer.cfg`) | `AnchoredBeforeHeard` `NeverEarly` `DrivesCorrection` | an unbroken stream of 3 buffers, 2 latencies, 1 new delay, beyond the limit, 1 clear, up to time 12 at 2 a callback |
| `ramp` (`Gain.cfg`) | `SettlesInOneRamp` `NoClick` | 2 setters, 3 volumes, a ramp of 4 frames, callbacks of 0 to 5 |
| `clock` (`ClockSync.cfg`) | `NoiseIsNotDrift` `ConversionsInvert` `EstimateMovesForward` | a second ping 2 units after the first, then one every 8, events 2 or 6 units apart up to 17, 2 messages under way, answers that come twice, round trips over the limit of 10, 3 drifts of which one is implausible |
| `pipewire` (`PwPlayer.cfg`) | `DeadThreadReported` `ReportsOneTimeline` `DropEndsAll` `ReconnectServed` | 2 reconnects with and without an idle gap, callbacks 0 to 3 units apart up to 6, counters that run, stall or start over, 2 units and none |

Runs that TLC ends with a counterexample, each a sentence of the documentation
that the code does not keep (quoted in `PROJECT.json`):

| Run | Property | What happens |
|---|---|---|
| `displaced` | `DisplacedArrivesClosed` | a displaced entry is received before its flush has ended |
| `lost_delay` | `DelayTakesEffect` | a delay set during a handoff never takes effect |

Reading the code beside its documentation showed lesser differences, which the
models have and no run is about:

- aborting the clock-sync task does not wait for it, so that a `client/time` may
  still be queued behind the goodbye (the writer discards it);
- over a gap in the timestamps, the cursor goes on counting frames while the next
  buffer plays, so that audio is heard ahead of the cursor (`renderer.rs:153`;
  the comment at 45-48 has the cursor be the timestamp that is playing);
- one reading that is too low makes the floor of a window and has frames
  repeated (`sync_correction.rs:246`), where 183-184 call a low outlier a bias
  towards under-correction, the safe direction;
- the cursor starts at the first buffer enqueued and not at the earliest;
- a static delay that is *reduced* makes no handoff and is left to drift
  correction;
- two concurrent `set_volume` calls may leave the volume that is shown and the
  gain that is heard apart (`gain.rs:59`);
- the newcomer's own liveness is not asked in arbitration (`manager.rs:496`): one
  that died while it waited displaces a live server;
- a `reconnect` whose `connect()` fails is logged and nothing else
  (`pw_synced_player.rs:508`): the player stays silent, `has_error` stays false;
- `SyncQuality::Lost` is documented for round trips over 100 ms
  (`sync/clock.rs`), but `update` discards those before it records them: the
  quality stays what the last short round trip made it.

### Bounds, and why they are enough

- *Three peers* are an incumbent, a newcomer, and one that waits behind them in
  the channel or in the backlog; with one slot the channel holds one, so all
  queues fill. Any number of slots is a matter of the proofs. `arbitration`
  leaves `disconnect` to `manager_liveness`, where two peers are enough: the one
  that is told goodbye and the one that replaces it.
- *Three hellos* give every outcome of `should_switch`: a player, a discovery
  server that is the last played, and one that is not.
- *Two calls* on a connection are one in the writer's hand and one behind it, or
  two that race for the goodbye.
- *Four frames* are the hello, a start, an end and a message that reacts; the
  gate has three roles, which is what a torn read needs.
- *Two channels may lose their receiver* (`Droppable`): one that the gate's
  messages use, and one that they do not. The proofs take any set of them.
- *Three buffers* are an overlap, a gap and a neighbour on either side. The
  *four* of an unbroken stream take the rounding phase through its period.
- *Windows* of up to four readings wrap and change length; the streak is
  shorter than the window, as 50 is than 101.
- Counters that the code does not bound have bounds of their own:
  `MaxSets`, `MaxTimes`, `MaxFrames`, `MaxMoves`, `MaxClears`, `MaxNow`,
  `MaxBatch`, `MaxRequests`, `MaxFlight`. Nothing but the end of a run depends on
  them.
- *Two messages under way* (`MaxFlight`) are what lets one answer overtake
  another; time up to 17 has room for three pings and so for the two samples of
  the bootstrap, closer and further apart than the baseline, and a Kalman step.
  Delays are even, so that the halves in `update` are exact; an odd pair of
  readings would only add half a unit of rounding.
- *Two reconnects* are one in service and one that arrives in its idle gap. The
  callbacks' clock runs to twice the device clock's window, so that a report and
  the one after it are made; the tolerance of 40 percent is what a window of 3
  units can tell from a rate that is right.
- Symmetry is used in `arbitration`, over connections, whose identity appears in
  no ordering; no liveness property is checked there.

Deadlock is checked where the system never stops (queue, correction, gain). It
is off where it may: a manager that was dropped, a connection that has closed,
a stream that has ended, a player that was dropped, and where time is bounded by
`MaxNow`.

### Fairness

`ConnectionManager!Fairness` and `Connection!Fairness` say that the runtime
polls a task that can go on (weak fairness), that timers fire, and that aborts
are carried out. tokio's `select!` picks a ready branch at random, so the driver
as a whole is weakly fair. Accepting a given peer and sending on the bounded
channel are strongly fair: the kernel's backlog and tokio's channel serve
waiters in order, and accept errors are transient, as the code's comment has it.
Nothing is assumed of peers, the network or the application: a handshake may
stall for ever, and a write may never complete. That is why the liveness
properties fail without the two timeouts, as their mutants show.

`PwPlayer!Fairness` is weak fairness of the thread, whose calls of PipeWire
return (`iterate` waits 100 ms at most, `connect` and `disconnect` are queued),
and of the join in Drop. No fairness is assumed of the callbacks, so that a
device that never asks for audio changes nothing about `DropEndsAll`. The
reconnects of `ReconnectServed` need no more: the loop polls the channel in each
round.

## 4. What is proved

The theorems hold for every value of the constants that meets the named
assumptions of their modules (`ManagerAssumption`, `ConnectionAssumption`,
`RouterAssumption`, `PwAssumption` with `DeviceClockAssumption`,
`GainAssumption`, `ClockAssumption`, `CorrectionAssumption` with
`ReadingsAssumption`, `QueueAssumption` with `ArrivalsAssumption`,
`RendererAssumption`). `AdmissionBound`, `CorrectsTheFloor` and the type invariants of
the manager, the connection, the router, the player, the gain and the renderer are
proved and not run.

**`ConnectionManager_proofs`.** `SingleOwner` is not inductive with `TypeOK`
alone, because a handshake task must be known not to have reached the channel
yet; the invariant is the conjunction of `TypeOK`, `SingleOwner` and the facts
that tie a permit to an attempt. On it rest:

- `TypeCorrect`, `PermitsCorrect`, `AdmissionCorrect`: the permits are counted
  by the cardinality of the set of handshaking peers, for any number of slots;
- `OwnershipCorrect`, `YieldOrderCorrect`, `ServingCorrect`: `YieldedInOrder`
  and `OnlyIncumbentServes` use that a yielded connection is never again
  anywhere but with the driver or a flush;
- `RejectionCorrect`, `PreemptionCorrect`: action properties, one case per
  action of `Next`;
- `DisconnectCorrect`: the invariant `CallInv` says of each call which command
  is still queued (`CallsDistinct`), which connection it flushes, and that its
  reason is the one being flushed;
- `LifecycleCorrect`: the refinement of `ServerLifecycle`, a step to a step or a
  stutter. `StageOf` gives a connection that runs without an owner a stage,
  `astray`, that `ServerLifecycle` does not have, so that the refinement rests on
  `SingleOwner`.

**`Client_proofs`, the connection.** The invariant relates the wire to the queue: the wire
is the first `next` commands, or one fewer while the writer holds one it has not
written, and the goodbye ends both. `WireCorrect`, `GoodbyeCorrect`,
`AckCorrect`, `WaitersCorrect` and `DisconnectCorrect` follow, and `PromiseKept` shows that a
connection implements `GoodbyeFlush`.

**`Client_proofs`, the router.** `RouterTypeCorrect` needs to know that a call that still
looks has a role left to look at. `RoutingCorrect` shows `ChannelsComplete` for
streams of any length: it rests on where the hello is, which no later frame
changes, and on a flag that is set only for a receiver that is gone.
`RequestsCorrect` goes by two invariants. `GateInv` says what each gate holds:
the truth after the last frame read, or, while the router settles a stream
message, the truth before it for the roles not yet reached. `ReqInv` keeps for
each call what it has found, at a moment that it may count from: a message in
the application's hands is one the router is done with (`LastTakenDone`, from
`ChannelsComplete`), so that even a gate not yet settled is not too old.

**`Player_proofs`, the PipeWire player.** `TypeCorrect` has to bound what was coalesced: the
requests served and those queued are no more than those sent (`CountsOK`).
`DeathReported` needs only where the thread may be when `running` still holds.
`ReportsCorrect` is for any window, pause and tolerance: `ClockInv` relates the
estimator's samples to the ghost of the device, in particular that the sample a
report starts from is no older than the last break, and that a counter which
stands still keeps the time at which it last moved.

**`Player_proofs`, the gain.** `GainTypeCorrect` and `SettlingCorrect` go by `Settling`: a ramp
under way and the frames since its target was first seen add up to one ramp.
`ClickCorrect` is the harder one: `Straight` says of a ramp under way that its
step is no more than a full range's, and that what the step's rounding leaves
over for the snap is less than `RampFrames`, on the side of the target
(`UpdatedStraight`, `RampedStraight`). The lemmas before it are the little there
is to know of products and quotients of variables, which the solver does not.

**`ClockSync_proofs`.** `ForwardCorrect` is an action property of `update` and
what calls it. For `NoiseCorrect`, `NoiseInv` says that every message under way
was stamped with times that were true, so that half the round trip bounds the
error of each measurement (`Credible`), and so their difference by the sum of
both, which is less than two sigma. It needs the clock's readings to be an even
number of units apart and `CountCap` to be at least 3, both in `ClockAssumption`.
`ConversionsCorrect` is arithmetic: what `Rounded` gives is within half of the
quotient it rounds and grows with it (`RoundedNear`, `RoundedGrows`), so that the
two conversions miss each other by at most one unit (`ThereAndBack`,
`BackAndThere`) for every drift up to one fifth, the limit beyond which the clock
refuses to convert. It holds for every instant, not only those near `now`.

**`PlaybackQueueOps_proofs`.** What the operations return, for any queue and any
rate. A loop of the code is a recursive function, `KeptOf` and `FramesOfFirst`;
that such a function exists is shown by building it up (`Recursion`), and what holds
of all its values by the least one of which it does not (`Induction`). Both lemmas
take a set in the place of a predicate, so that every prover can use them.
`GoodQueue` is what each operation keeps: types, order (`Ordered`: buffers sorted,
and no two covering more than the rounding of a timestamp), no index past its
buffer, and an empty queue until it is initialized. `PushedGood`, `TakenGood`,
`ReadGood` and `SoughtGood` say so of each, and what becomes of cursor, remainder,
generation and `force`.

**`PlaybackQueue_proofs`.** `TypeCorrect` and `TimelineCorrect` are those lemmas step
by step; that no frame wholly behind the cursor begins a buffer is `SkipFacts`,
from the rounding of the skip. `CursorCorrect` is the identity *cursor * Rate +
remainder = anchor * Rate + count * Second*, which `advance_cursor` keeps.
`LosslessCorrect` is the hard one: in a stream without a gap all timestamps are the
floors of one grid (`OnGrid`), so that neighbours overlap by less than a frame's
time and none is evicted (`GridOverlap`), and a cursor that counts frames is never
so far past the start of a buffer that `next_frame` would skip one (`GridCursor`).
The invariant `AlongAt` says where in the stream the queue, the buffer in hand and
what was heard meet. The theorem has the hypothesis `Rate < Second`: the code counts
10^6 units a second, and no audio format comes near that many frames. (With a frame
shorter than a unit the rounding of one timestamp is a whole frame, and `push`
would evict a neighbour.)

**`SyncCorrection_proofs`.** The invariant says how the ring lies over the
readings: slot by slot, the filter's array holds the latest readings, in the
order in which `next` will overwrite them, for any size of the ring, through
wraps and changes of the window. That the window has a least reading comes from
the well-foundedness of the numbers, and that ring and window have the same
least one from their having the same members. `CorrTypeCorrect`, `FloorCorrect`,
`CorrectionCorrect` and the action property `EvidenceCorrect` follow.

**`Renderer_proofs`, the callback.** `AnchoredBeforeHeard` is about the last output
alone, and what makes it true is spread over the callback, so that the invariant
`Anchored` follows the generation from hand to hand: a queue that asks for no handoff
has had one of its generation; a callback under way holds the generation that the
renderer plays; one that took its snapshot of an anchored queue, or has made its
handoff, plans for an anchored generation; a renderer that has started plays one.
`clear()` may come at any of these points, because it sets `force` with the new
generation and a handoff looks at the generation again before it moves the cursor.
`AnchoredCorrect` follows. `TypeCorrect` needs of every step that it leaves the
counters within the schedule in force (`GoodRenderer`); for `Render` that is an
induction over the frames of a callback of any size, with skipped and repeated
frames (`FrameStays`, `OutputsStay`), on the lemmas about the queue's
operations. `RendererTimeline` is what those say of the queue's order: it stays one time
line under everything that a callback does to it.

`CorrectsTheFloor` says of the whole callback what
`CorrectsTheError` says of the corrector alone: a correction in force is one for the
floor of readings that the filter still holds, and was planned with a settled clock.
The first callback that finds the clock settled forgets the readings, so that no
correction may be in force before it: until then none is planned, because a
callback that gets as far as its handoff holds the clock's mutex until its plan is
made and the router cannot settle the clock in between (`FloorInv`). `RendererCorrects`
follows.

**`Renderer_proofs`, the refinement.** `DrivesCorrection` states what the renderer
owes to `SyncCorrection`: each of its steps is one of `SyncCorrection`'s or leaves
correction, readings and clock alone, and a reading is the error at the cursor, taken
by a callback that plans. `Driven` says the same of the renderer's own operators, and
each action is shown to be one of its cases (`IdleDrives`, `ResetDrives`, `SyncDrives`,
`CorrectDrives`). The hard case is `Correct`: `Measure` may only happen on a clock whose
settling has been seen, which `FloorInv` gives, because the router cannot settle the
clock between a callback's `Sync` and its plan; the mutant of the run, a router that
does not wait for the mutex, breaks exactly this. An instance has operators of its own,
so that `SameFilter`, `SamePlan`, `SameGate`, `SameMeasured` and `SameResets` show them
equal to those of the renderer. `CorrectionDriven` states the property of the run, and
`CorrectionImplemented` that the renderer implements `CorrSpec`, with all integers for
readings and the renderer's period for the only one. What is proved in
`SyncCorrection_proofs` is instantiated with the renderer's state (`Proved`), and so
`RendererFloor`, `RendererError` and `RendererEvidence` hold of whole callbacks among
clears, handoffs, missed locks and updates of the clock.

## 5. What is only model-checked

Liveness under fairness (`BacklogAdmitted`, `DisconnectAnswered`,
`DropReleasesAll`, `GuardReleases`, `DropEndsAll`, `ReconnectServed`) is out of
the prover's reach, as is `ENABLED`. `NeverEarly` stays with TLC for another reason:
it is not true of every value of the constants. It takes an unbroken supply, which the
assumption on `Arrivals` does not ask for, and a plan that undoes no more in one
callback than the error it was made for, which depends on the windows, thresholds and
periods together; the run has values for which it holds.

A callback that misses the clock's mutex renders on the schedule it finds, so that a
correction goes on for as long as callbacks miss it, past the error it was for
(`renderer.rs:565`). One miss is a frame or two; what all of them may have dropped is
counted in `blind`, which `NeverEarly` allows for. Without that allowance, misses in a
row that outlast a correction are a counterexample; the horizon of `render` is too short
for them, and the router's hold on the mutex makes them unlikely.

## 6. Abstractions to keep in mind

- The server's and the client's clock show the same time in `Renderer`, which
  takes only whether the estimate between them converts and whether it has
  settled. What the estimate does is the subject of `ClockSync`.
- `ClockSync` has the server's clock run at the client's speed. From the third
  sample on its gain is a choice (section 2), so that nothing is claimed about how
  fast the filter converges.
- In `PwPlayer` a call of PipeWire succeeds or fails; the parameters of the stream
  do not matter to what the thread does.
- Samples and payloads are not modelled; a frame of audio is known by its
  buffer and index.
- `cursor` and times are unbounded integers: the code's `i64` microseconds do
  not overflow within the life of a player.
- `RequestsJustified` is about requests that are valid in themselves; a
  visualizer request that fails its own validation is rejected before any gate.
- The generation counter wraps at 2^64 in the code and does not here.
- `AnchoredBeforeHeard` excludes the callback that `clear()` overtook: it may
  play up to one period of a new stream before its handoff. `NeverEarly` excludes
  that callback too, and streams whose static delay was changed, which moves the
  time itself. The exclusions are in the properties, where they can be seen.

## 7. Plan

Done: connection life cycle (manager, connection, router), audio (queue,
correction, renderer, gain), the clock, and the PipeWire player with its device
clock, with three refinements and proofs about every module with a specification
of its own.

What could come next:

1. a composition of `Renderer` with `ClockSync`, in which the two clocks differ
   and the estimate is stepped while a correction is in force;
2. a composition of `ConnectionManager` with the connections it holds, through
   `GoodbyeFlush`, which is so far what the manager assumes and `Connection`
   implements;
3. a gain of the Kalman filter that is computed, as intervals, for the third and
   later samples;
4. the conditions on windows, thresholds and periods under which `NeverEarly` holds
   of every unbroken stream, and a proof from them.

## 8. What is not modelled, and why

- *The Kalman gain from the third sample on, `quality()`, `is_stale()` and the
  bridge to `Instant`* (`sync/clock.rs`): floating point, and two getters and a
  conversion that no code of the crate decides by.
- *Message types and the client builder*: serde types and one-time assembly of
  options, without behaviour over time. The kinds of message the router and the
  manager decide by are in their modules.
- *Listener*: its accept and its handshake are steps of the manager; TLS and the
  HTTP upgrade are third-party code and the path filter one way to fail.
- *Buffer pool*: a third-party lock-free queue with one call of it for each
  operation.
- *Decoders*: stateless conversions, and calls of third-party codecs.
- *Building the output stream* (cpal, and PipeWire's properties and formats):
  calls of the operating system's audio API.
- *Raw clock*: a reading of the system's monotonic clock.
- *Logging, statistics and log sampling*: no influence on behaviour.
- *Examples*: programs that use the crate.
