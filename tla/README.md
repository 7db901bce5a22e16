# A TLA+ development of the csqtt engine

This directory models the concurrent core of **modulecsqtt**, a tunnel module
that carries packets through TURN allocations: a Rust engine
(`src/examples/modulecsqtt/native/csqtt-engine`, below `engine/`) driven by a Go
helper process (`src/examples/modulecsqtt/native/csqtt`, below `csqtt/`). The
specifications are written from the code. TLC checks them on small instances
and TLAPS proves the most important results for every value of the constants.

## 1. The system

A host application starts the Go helper, which starts the engine through a C
interface. The engine runs `workers` tasks. Each worker obtains TURN
credentials (shared by a cohort of workers, fetched from VK), allocates a TURN
path, registers it with the server (`GETCONF` carries a *generation* and a
worker count; the server keeps the paths of one generation together), and
carries packets until the path dies, the network changes or the worker is
parked. Packets of the tunnel are spread over the live paths by a dispatcher.

| Component | Code | State it keeps | Operations | Hard part |
|---|---|---|---|---|
| Idle scale-down | `engine/idle.rs` | atomics `ACTIVE`, `LIMIT`, `DECLARED`, `GEN_OFFSET`, `ANNOUNCE`, `JOINED[w]`, two windows | `enter`, `exit`, `note_uplink`, `note_path_joined`, `note_path_lost`, `worker_allowed` | five atomics written one at a time by the monitor task, by injecting threads and by dying sessions |
| TURN path session | `engine/session.rs` | one path's sockets, handshake attempt, epochs it has seen | `run_session`, `request_configuration`, `run_allocated_session` | process-global epochs are read at several points and compared later |
| Soft handover | `engine/rebind.rs` | `EPOCH`, stall detector | `request`, `changed` | a change of network in the middle of a connect |
| Stream repair | `engine/repair.rs` | per worker: restart, credential, last and ready sequence | `apply_repair`, `apply_alive`, `mark_ready`, `changed` | several readers, duplicates, old commands, lost wake-ups |
| Inbound replay window | `engine/session.rs` | `highest`, ring of bits | `accept`, `accept_rtp` | reordering across the wrap of a 16 bit sequence |
| Goodbye | `engine/session.rs`, `engine/lib.rs` | streams, `active`, `completed`, `STOP_FLAG`, `STOP_DONE` | `register`, `request_disconnect`, `observe_control_response`, `signal_stop_disconnect` | several leaders at once, nested timers, silent streams |
| Credential cohorts, worker loop | `engine/worker.rs` | `CredentialCache`, leases, `HashAvailability`, the configuration flight | `get`, `reserve`, `release`, `invalidate`, `rotate_after_quota`, `retry_after_mismatch`, `record_allocation` | a mutex held across long awaits, stale leases, one rotation for many reports |
| Dispatcher, packet queues | `engine/dispatcher.rs`, `packet.rs`, `packet_bridge.rs`, the writers and readers of `session.rs` | table of live workers, bounded queues per session and class, return queues | `register`, `dispatch`, `send_inner`, eviction, `redispatch`, `read_*`, `write_*` | copies of the table that grow stale, pushes to a queue that is being emptied, wake-ups on an almost empty queue |
| Flow framing, striping, FEC | `engine/shared/*.rs` | per-flow sequence, reassembly buffer with three limits | `frame_flow`, `push_at`, `release_expired` | reordering over several paths, wrap, releases forced by a limit |
| TURN client core | `engine/turn_core.rs`, `turn.rs`, `stun_codec.rs` | transactions, nonce, channel, deadlines; the driver's copy of the state | `start_*`, `input_stun`, `poll`, `graceful_shutdown`, `driver_loop`, `request_cleanup` | retransmission ladders, a shutdown in the middle of any transaction, two views of one state |
| Wake probe | `engine/wake.rs` | epoch, gap | `request`, `changed` | a suspension shorter or longer than a lifetime, seen at any point of the driver's loop |
| Engine lifecycle, C interface | `engine/lib.rs`, `ffi.rs`, `events.rs`, `protocol.rs` | process-wide cells: token, pause gate, count of paths, bridge, tunnel address | `csqtt_engine_start`, `_wait_ready`, `_stop`, `run` | the run before still winds down while the next one starts |
| Data path guard | `csqtt/cmd/helper/datapath.go`, `netwatch.go`, `wake.go` | pause, recycle, rebind, grace windows | `onHandover`, `onWake`, `pause`, `resume`, `heal`, `recycle` | goroutines with timers that re-check after unlocking |
| Process and modes | `csqtt/cmd/helper/main.go`, `engine_*.go` | the run started last, the netstack's address | start, wait, recycle, host commands | shares the engine's cells |
| Tunnel device, VK authorisation, obfuscation, UDP batching, name resolution, logging, shared canons, build tools | see `PROJECT.json` | | | I/O, byte transforms or scripts: listed as not modelled, each with its reason |

How they interact:

* **Shared atomics with a Notify**: idle, rebind, wake and repair epochs are
  bumped by one task and watched by all sessions. A watcher registers its
  `Notified` future and then compares the epoch; the specifications reduce that
  idiom to a guard on the epoch. `RepairState::changed` compares first, so
  `StreamRepair` keeps its steps apart. Where a queue or a flag stands behind
  the Notify (`PacketPath`, `ReturnPath`, `TurnDriver`), its stored permit is a
  variable and every look at the queue a step.
* **Bounded queues**: reader of the device to the writers of the sessions, TURN
  driver to the session's reader, readers to the one writer of the device.
* **A core behind a lock, its events behind a ring**: the TURN driver pulls the
  core's events and keeps a copy of its state for the session.
* **A mutex held across an await**: `GroupCredentials::get` (`engine/worker.rs`).
* **Messages to and from the server**: registration, its answer, STREAM_REPAIR,
  STREAM_ALIVE, DISCONNECT. All may be lost, delayed or duplicated, and arrive
  through the reader task of any live path.
* **Calls of the host**: pause, rebind, stop; the stop call waits for the
  engine with a timer of its own.

What makes each component correct, in a sentence:

* idle: when no change is under way the mode, the limit and the declared count
  agree; a dying path opens a new epoch only if it belonged to the current one;
* sessions: after every change of epoch or count the live paths register again
  with what is then current; a change of network interrupts a connect;
* repair: each sequence restarts the worker once, never an older one after a
  newer one, and an escalation is visible before the restart it belongs to;
* replay: each packet is delivered at most once and a packet that is not older
  than the window is not refused;
* goodbye: it ends, the followers stay until it has ended, one silent stream
  does not use up the budget, the host's wait is long enough;
* dispatcher: each copy of a packet is in one place until it is sent or given
  up, also when its session dies; nobody sleeps over a queue;
* framing: a flow comes out in order and at most once, and no new frame is taken
  for a late one;
* TURN: no state waits for an answer to a transaction that is gone, an
  allocation the server holds is given back, the session learns of every end and
  of its reason, a driver told to clean up ends;
* engine: the cells a serving helper reads belong to the run it serves, and a
  run told to stop ends;
* data path guard: every flag (`recycling`, `rebindInFlight`, `paused`) has a
  goroutine that will clear it, one recycle at a time, a pause ends without the
  host's help;
* credentials: no credential carries more allocations than it is allowed,
  rejected credentials do not come back, a cohort rotates once per rejection,
  parking is free, the configuration request is never forgotten.

`PROJECT.json` lists the hazards behind these sentences, each at its line.

## 2. Modules

| Module | Models | Composes |
|---|---|---|
| `IdleGate` | `idle.rs`: every atomic store of `enter` and `exit` is an action; `NoteUplink` has both sliding windows | |
| `PathSession` | `worker_loop`'s gate, `run_session`, `request_configuration`, `run_allocated_session`, `note_path_joined`, `note_path_lost`, the rebind epoch, the pause gate | EXTENDS `IdleGate` |
| `StreamRepair` | `repair.rs` with the reader tasks and the session that watches the slot | |
| `ReplayWindow` | `ReplayWindow` of `session.rs` behind a network that reorders, duplicates and loses | |
| `Shutdown` | `ShutdownCoordinator`, STOP handshake, main loop, timers | |
| `WorkerCredentials` | `CredentialCache`, `get`, `worker_loop`, `HashAvailability`, `ConfigDeliveryState`, `ConfigFlightGuard` | |
| `DataPath` | `datapath.go` with `netwatch.go` and `wake.go` as its callers: host events, monitors, connections and every goroutine the guard starts | |
| `TurnPhase` | the life of one relay allocation as `turn_core.rs` promises it: asked for, held, lost, released, over | |
| `TurnCore` | `NativeCore` of `turn_core.rs`: every method, any caller, any answer | refines `TurnPhase` |
| `TurnDriver` | `TurnAllocation` and `driver_loop` of `turn.rs`, the session that owns them, the epoch of `wake.rs` | EXTENDS `TurnCore` |
| `FlowFrame` | `shared/flow_frame.rs` and `ReturnReorder`: sequencer, lossy and reordering paths, reassembler | |
| `PacketPath` | the way up: `FastPathScheduler`, `Dispatcher`, the writers and the end of a session | |
| `ReturnPath` | the way down: `DriverShared`, `TurnReceiver::recv`, `reader_loop`, the return queues, `write_bridge`, `write_tun`, `write_udp` | |
| `EngineLife` | `ffi.rs`, `lib.rs` and the helper's start, wait, stop and recycle | |
| `WorkerCredentialsProofs`, `DataPathProofs`, `ReplayWindowProofs`, `ShutdownProofs`, `EngineLifeProofs` | theorems | EXTEND the module they are about |
| `SessionProofs` | theorems about `PathSession` (and its `IdleGate`) and `StreamRepair` | EXTENDS both |
| `PacketProofs` | theorems about `PacketPath`, `ReturnPath` and `FlowFrame` | EXTENDS the three |
| `TurnProofs` | theorems about `TurnCore` and `TurnDriver` | EXTENDS `TurnDriver` |
| `MC*` | instances for TLC | EXTEND their module |

### State and actions against the code

* **`IdleGate`.** `active`, `limit`, `declared`, `genOffset`, `announce` are the
  statics of `idle.rs`; `mon` and `inj[i]` are the program counters of the
  monitor task and of the threads inside `packet_bridge::inject_packet`.
  `limit = Unlimited` is `usize::MAX`. The clock is reduced to "the window has
  run out or not". `overlap` is a history variable.
* **`PathSession`.** `pc[w]` walks through the gate, the connect select, the
  three loads of `build_registration_payload`, the handshake, the two epoch
  reads that precede the loop, the loop, and the steps of `note_path_lost`.
  `seen` and `rseen` are `announce_seen` and `rebind_epoch`; `advert` is the last
  registration sent; `sock` is a history variable: the rebind epoch at which the
  sockets were opened.
* **`StreamRepair`.** A reader's `rpc` walks through `apply_repair` one atomic
  operation at a time (load, compare_exchange, ready check, credential bump,
  restart bump, notify); `ApplyAlive` is the `fetch_max`. The session's `spc`
  walks through `mark_ready` (load, store) and `changed` (check, register, wait).
* **`ReplayWindow`.** `highest` and `seen` are the struct's fields, `Extend` is
  the arithmetic of `accept_rtp`, `Advance`/`Late` the two accepting branches of
  `accept`. Window and modulus are constants, so the code's 16384 and 65536 are
  scaled down together.
* **`Shutdown`.** `active`, `completed`, `streams` are the coordinator's state;
  the leader's `step` follows `request_disconnect`. Each timer is a countdown.
  `Tick` is disabled while some task could run (`Urgent`): the runtime is fast
  compared with 80 ms.
* **`WorkerCredentials`.** `current`, `blocked`, `nextGen`, `retries` are the
  cache; `holder` is the worker inside `get` with the mutex; `pc[w]` follows
  `worker_loop`. A session is seen by its signals (`allocation_started`,
  `allocation_ready`, ready) and its result. Error strings are classified
  already: `result` is the class that `worker_loop` branches on.
* **`DataPath`.** A critical section of `g.mu` is one action; `at[t]` is the next
  one of each task: the reader of host events, the two monitors, a connection
  (with the heal it starts) and a pool of goroutines, which the code's `go`
  statements draw from. A generation (`pauseGen`, `rebindGen`, `softResumeGen`) is
  only ever compared with the one a goroutine took, so `fresh[t]` replaces the
  numbers: a new generation clears it for all others that hold one of its kind.
  Sleeps end whenever they end, and a time window is a flag the clock clears.
  `lacks` is the set of symbols an engine build does not export, `hard` says that
  a reason has one of the two suffixes `heal` tests.

* **`TurnCore`.** The core is one record, since every method locks it whole; an
  operator from core to core is a method of `Inner`, and an action a method of
  `NativeCore`. A transaction is its operation, its transmissions and its nonce
  retries; `armed` is the set of deadlines that are set, and `poll` finds any
  subset of them passed. `Answers` is what an answer says after parsing: class,
  code, integrity. `TurnPhase` has the six phases of an allocation, `PhaseOf`
  the refinement mapping: DESTROYING with its expiry still known is `lost`, the
  server may hold it, and otherwise `over`.
* **`TurnDriver`.** `dpc` follows one round of `driver_loop`: top (wake, cleanup),
  poll, send, wait. `snapshot`, `sharedChannel` and `terminal` are the copies that
  `pump_native` makes of the core's events; `permit` is the stored permit of
  `shared.wake`; `owner` is the session (`connect`, `prepare_channel`, live, gone).
  A pump that finds the relay's address gone (`RelayFails`) leaves with an error and
  the events behind it still in the ring.
* **`FlowFrame`.** `sequencer`, `flows` and `total` are the fields of
  `FlowSequencer` and `FlowReassembler`; `frames` holds all that were ever handed
  to the paths and `Push` takes any of them, so that loss, reordering and repeats
  are one set. A gap's age is young or old.
* **`PacketPath`.** `scheduler` has the reader's copy of the table, `task[t]` an
  enqueue split where another thread may come in (look, push, look at the
  length), `queue[s]` the queue, its permit and its writer. Task 0 is the reader
  of the device, the others are sessions that hand over what they had. Task 0 gives a
  spare copy up where it would give a packet a place by eviction (`dispatch_now`);
  `redispatch` cannot tell the two apart and evicts for either.
* **`ReturnPath`.** `shared[p]` is `DriverShared` with its two incoming queues, and
  each store of `fail` is a step; `reader[p]` walks through `recv` (look,
  registered, asleep); `writer.look` counts the looks at the three return queues
  and at the device before the writer sleeps. With a TUN device (`writer.tun`) the
  writer begins without a descriptor (`none`), the queues refuse packets until
  `resume` has opened them, and the descriptor may be lost at every await of
  `run_tun`, which then waits for another (`lost`) with nobody at the queues.
  `resume` is one step: a push that it overtakes counts as purged.
* **`EngineLife`.** `statics` and `bridge` are the process-wide cells, each stored
  by steps of its own; `engine[r]` is one run on its thread, from its start-up in
  the order of `run` to the joins at its end; `host` is the helper. `past` notes
  how far the older runs had come when the last one was spawned.

A wait with register-then-check is a guard. `biased` in a `select!` orders the
polls of one task, and other threads move the epochs between two polls, so the
branches are alternatives.

## 3. Runs

Every run explores its whole state space (states are the distinct ones of the
present instance). Deadlock is checked by `replay`, `flow` and `engine`; elsewhere the
bounds on epochs, stops, packets and sessions, and the end of what is modelled,
stop the models legitimately, and liveness is stated where the code owes it.

| Run | Instance | States | Shows |
|---|---|---|---|
| `paths` | 2 workers, 1 rebind, 1 pause, 2 lost epochs, 2 handshake attempts, no idle mode | 604 180 | `ConnectSeesRebind`, `ReannounceCatchesUp`, `LossClosesOwnEpoch` while both workers lose their paths at once and register again |
| `paths_idle` | 2 workers (1 keeper), 1 injecting thread, 1 enter | 2 468 186 | `ReannounceCatchesUp` and `ModeAgreesSequentially` with the mode changing between any two loads of a registration |
| `repair` | 2 readers, 3 sequences, 2 sessions | 1 989 876 | `OneRestartPerSequence`, `EscalationBeforeRestart` |
| `replay` | window 3, cycle 12, packets 7..16 (crossing the wrap), 4 late, 5 lost | 18 875 | `AcceptedOnceIfClean`, `FreshIsAccepted` |
| `goodbye` | 2 sessions and the main loop, budget 9, attempt 2, follower 25, host 10 | 798 168 | `LaterStreamsAreTried`, `FollowersWait`, `HostWaitCoversGoodbye`, and `GoodbyeEnds` under fairness |
| `credentials` | 2 workers, 2 credentials, 2 allocations each, 2 generations, 2 holds | 3 752 159 | the five cache and flight properties |
| `datapath` | 1 connection, 2 goroutines, 2 events, 1 recycle, threshold 1, builds with and without path counts and rebind | 110 268 | the flags have their goroutines, and `NetbackNotNeeded` under fairness |
| `turn` | UDP, 1 transmission, 1 nonce retry, 2 channel failures, 64 events | 292 439 | `TransientsArePending`, `KnownIsReleased`, `ViewFollowsCore`, `EndIsReported`, `MismatchIsNamed`; the refinement `ImplementsPhase`; `DriverEnds` under fairness |
| `flow` | 3 flows (1 near the wrap), cycle 16, 2 tracked, 2 held per flow and in all, 2 senders, 5 packets | 102 222 | `AccountingMatches`, `OutputInOrder`, `NewFrameIsKept` |
| `packets` | 2 workers on 2 relays, 2 sessions, queues of 2, chunk 2, 3 packets, 1 with a spare | 275 824 | `EachCopyOnce`, `MissedIsBounded`, and `SessionEnds` under fairness |
| `engine` | 2 runs of 2 workers, 1 address | 221 862 | `PathsAreCounted`, `ServingIsWired`, and `CancelledEnds` under fairness |
| `returns` | 1 path, queues of 1, batches of 2, 4 packets of all classes (two small, a bulk and a medium one), with and without a TUN device | 349 318 | `ReturnedOnce`, and `WaitersWake` under fairness |

The type invariant of a module is a conjunct of one of its invariants (the
definition says so), except where TLAPS proves it (`IdleGate`, `PathSession`,
`StreamRepair`, `WorkerCredentials`).

Why the bounds are enough:

* two workers and one lost epoch beyond the first make two sessions race for the
  same compare_exchange and make one of them lose it; the second epoch makes a
  joined offset stale. Rebind and pause are independent of each other and matter
  once each.
* in `paths_idle` one enter and one exit cover both directions of every load,
  and the proof of `SequentialModeAgrees` covers any number of threads.
* three sequences are needed for "the previous one was answered, the next one
  is not", two readers for every race on the slot.
* the replay instance keeps `Window < Half` and `Reorder < Half`, has a wrap in
  the middle, lags of more than the window and jumps of more than the window;
  all boundary comparisons are met with equality.
* the goodbye's times are those of the code in units of 40 ms with the budgets
  halved: attempt 80 ms is 2, and budget < host wait < follower wait as in the
  code (700, 800, 2000 ms). Three silent streams would use up the budget.
* two workers fill a credential exactly (`PerCredential = 2`), so one more
  charge is too many; two values are what is needed for VK to return the same
  one again or another.
* an event of `datapath` is a host event, a change of network, a wake or a heal:
  two of them overlap in every step, which is what each flag needs (two
  rebinds, a pause during a recycle, two pauses). Three events hold the same
  safety properties (6.7 million states). One recycle meets both ends of the
  streak; a threshold of one makes every timeout outside the grace count.
* `turn` has one of everything that counts down, which is enough to reach each
  limit and one step before it: a challenge that may and one that may not be
  retried, a channel failure that is and one that is not the last. The run has
  `Stream = FALSE`. On a stream every expiry is final, and the loop goes on looking
  at its owner and at errors while it is closing (`OwnerClosed`, `ReceiveFails`);
  with `Stream = TRUE` the same properties hold. That controls then go
  through a bounded queue (`turn_stream.rs:100-105`) is not modelled. A wake comes
  any number of times. The ring has the code's 64 places; it is proved that a running driver never
  leaves more than 17 events in it, and all safety of the run is proved for every
  value of the limits (section 4).
* `flow` has five packets because a flow that is full, a second that fills the
  total and a frame that forces a release take four; with two tracked flows the
  third evicts one. The cycle of 16 puts a wrap after the second packet and
  keeps fewer packets than half of it in flight, as the code's 2^32 does.
* `packets`: the two sessions are of one worker or of two, overlap or follow one
  another; a queue of two can be full, empty and, what the length test is about,
  just not empty. Three packets fill a queue and find it full.
* `engine`: interference is between a run and the one before it. Two workers are
  one that is counted and one that is opening.
* `returns`: queues of one are full at once, so that every packet evicts, is
  refused as not kept, or is put back by a writer that has moved on; two packets
  of one class make a batch. A second path only adds a second source for the same
  queues. The initial state chooses between the TUN device and the others.

Fairness. `Shutdown!FairSpec`: tasks that can run are polled by tokio and time
passes (weak fairness of the leader, the followers, the main loop, the host's
timed wait and `Tick`); nothing is assumed of the network or of streams.
`StreamRepair!FairRepairSpec`: reader tasks and the session are polled. The server
owes nothing. `DataPath!FairSpec`: goroutines run and their sleeps end (weak),
`applyEnginePause` returns, and a probe that is repeated for ever succeeds at
last (strong): the network does come back. The host, which may never send
netback, owes nothing. `TurnDriver!FairSpec`: the driver takes the steps it can take
(weak), and the deadline of its cleanup, once passed, stays passed
(`CleanupExpires`, strong, since the loop leaves its top in between); no answer is
owed and no socket need work. `PacketPath!FairSpec`: enqueues, writers and sessions
that end run; nobody owes a packet. `ReturnPath!FairReturnSpec`: the device's writer, the
readers, the last store of `fail` and a driver that is to end run, and a device that
serves takes what is written; no packet is owed, and the host owes no descriptor.
So `WaitersWake` promises a queue nothing while the TUN device is lost
(`dispatcher.rs:721`); the bridge and the UDP socket are never lost. `EngineLife!Fairness`: threads run, and a path of a cancelled run ends,
because every await of it looks at the token and `await_session_task` aborts what
does not; the server owes neither an address nor an allocation.

Every property of a run has a mutant: the definition it depends on, changed as a
plausible mistake would (`Mut_*` next to the original), and the run then fails.
The mutants are no part of the specifications.

What three properties leave out. `LossClosesOwnEpoch` is run by `paths`, which has no
`enter`; that `enter`, too, bumps the epoch between the load and the exchange is
covered by its theorem only. `ModeAgreesSequentially` speaks of an `enter` and an `exit` that did
not overlap; `ModeAgrees`, below, says what happens otherwise. `ServingIsWired` speaks of a
run whose predecessors were quiet or over when it was spawned: what a run that still
winds down does to the cells of its successor is outside it, and `ActiveIsMirror` and
`StopReachesEngine` mark two of the things that go wrong there.

### Stated, refuted, not run

These formulas are in the modules because they mark the limits of what holds.
TLC refutes each when it is named in the configuration of its module.

A comment, a document or a test of the repository says otherwise, or the code
plainly means otherwise:

* `IdleGate!ModeAgrees` (`idle.rs:213`). `enter` swaps `ACTIVE` first and stores
  `LIMIT` and `DECLARED` afterwards. An injecting thread whose burst leaves idle
  mode in between restores both, and `enter` then overwrites them: the engine is
  not idle, its extra workers are parked, and no later burst unparks them before
  the next silence. (One thread and two enters.)
* `PathSession!SessionSeesRebind` (`rebind.rs:7`). "Every session ends with
  `NET_REBIND`": a change of network during ChannelBind or the handshake is not
  seen by the session that goes live after it.
* `Shutdown!StopSaysGoodbye` (`session.rs:211`). The host's stop is to "ask the running
  engine to send DISCONNECT": `active` is never reset, so after the goodbye of a
  dead hash a later stop follows one that is long over.
* `Shutdown!DeadHashKeepsOthers` (`session.rs:918`). A session whose token fires
  asks for DISCONNECT. The token is that of its *hash*: one dead call hash
  disconnects the device while workers of other hashes are live. (`MCTwoHashes`.)
* `StreamRepair!RepairEndsSession` (`repair.rs:68`). `changed` compares and then
  registers; a repair in between is not seen until the next one, so the session
  goes on on the path that was to be replaced.
* `WorkerCredentials!RebindKeepsCredential` (`worker.rs:794`). A change of network
  uses up one allocation of the credential per worker: the slot is not handed
  back, as `IDLE_PARK` does, so the cohort soon fetches again although `rebind.rs`
  says it re-allocates with the cached credentials.
* `DataPath!HealKeepsWatchdog` (`datapath.go:297`). `heal` respects a rebind in
  flight only inside the 3 s gap. A connection that gives up after 8 s without a
  path starts another rebind, the watchdog (16 s) of the first one finds itself
  stale, and the grace window starts again: connections that keep coming postpone
  the recycle for as long as they come.
* `TurnDriver!ProbeFailsFast` (`turn_core.rs:533`; 21 steps). "A dead mapping shows up
  as RTO exhaustion": after a wake the Refresh of a READY allocation is sent,
  never answered and exhausted, and `maintenance_retry` only arms the next one.
  The path stays READY until the ChannelBinds have failed
  `MAX_CHANNEL_MAINTENANCE_FAILURES` times or the lifetime is over.
* `TurnDriver!EndsAfterRelease` (`turn.rs:829-835`). A driver that starts its cleanup
  with an exhausted channel finds its copy of the state at DESTROYING, the
  core has gone on to DEALLOCATING and has queued the Deallocate; the loop ends
  before the pump that would send it. The server keeps the allocation until its
  lifetime is over.
* `FlowFrame!HeldIsBounded` (`flow_frame.rs:188`, the test at `flow_frame.rs:583`). A frame
  that finds its flow full forces a release. The release may move `expected` to
  the incoming frame or past it, the frame is held all the same, and what is held
  below `expected` is never released: the flow holds one frame more than
  `MAX_PENDING_PER_FLOW`, and later ones add to it. The test fills a flow with an
  unbroken run, which does not meet this. `ExpectedIsNotHeld` (8 steps) and
  `HeldHasClock` (6 steps) are two views of the same state.
* `PacketPath!NothingStranded` (`session.rs:964`; 8 steps). "Take queued packets so a
  dying worker can hand them to still-healthy paths": a push that had looked at
  the queue while the session was healthy arrives after `drain_uplink`; the packet
  is lost with the session.
* `PacketPath!SpareTakesAnotherPath` (`dispatcher.rs:996`; 10 steps). "Short UDP and first
  QUIC Initial datagrams also go to a second worker": both copies start their search
  at different slots, but a congested or unhealthy path sends either on to the
  next, and they meet in one queue although another path is up.
* `EngineLife!ActiveIsMirror` (`stats.rs:14`, "Process-wide mirror of
  `Stats::active_connections`"; 29 steps). A start sets `ACTIVE_PATHS` to 0 while sessions of
  the run before are still to count down, so that it can be below the number of
  live sessions, and below 0 as a sum. `PathsAreCounted` says when it is exact.
* `EngineLife!StopReachesEngine` (31 steps). A stop cancels the token that is in
  `ENGINE_CANCEL` and leaves it there (`ffi.rs:266-270`); a run whose start-up has not
  stored its own yet is not told, and the next start replaces the handle.
* `EngineLife!AddressIsFollowed` (19 steps, two addresses). The netstack is built with the
  address the helper has read once; a later answer of the server changes the
  cell and not the netstack.

No document promises these:

* `PathSession!LivePathCatchesUp`: an epoch opened after the handshake's loads
  and before `announce_seen` is read is not registered until the next one.
* `PathSession!JoinedIsBaked`: generation and offset are two loads; the joined
  offset may be newer than the generation sent.
* `StreamRepair!AnsweredDoesNotEscalate`: `mark_ready` loads and then stores, and
  may overwrite a newer ALIVE; a needless credential fetch follows.
* `ReplayWindow!AcceptedOnce`: without `CleanStart`, the first packets straddle a
  wrap and a late one is extended upwards. `AcceptedOnceIfClean` is the part that holds.
* `DataPath!ResumeIsEarned`: `probeSucceeded` compares the generation and unlocks
  before it resumes; netback and netlost in between let the probe of the earlier
  pause end the later one (`datapath.go:500-512`; three events).
* `DataPath!EnginePauseAgrees`: `netlost` unlocks before it pauses the engine
  (`datapath.go:225-231`), and a recycle gives a new engine a `PauseGate` that is
  not paused; the engine may end up paused while the guard is not, or the reverse.
* `PacketPath!QueueWakes` (`dispatcher.rs:250`; 17 steps): two tasks push to an empty
  queue, both read the length 2, neither notifies. The next push to an empty queue or
  a writer command ends the sleep.
* `PacketPath!GivenUpWithoutPath` (7 steps): for the rest of a chunk the reader gives
  packets up to sessions that are over while a new one is registered;
  `MissedIsBounded` says how many.
* `ReturnPath!TerminalEndsReader` (`turn.rs:203`): `fail` publishes the snapshot, which wakes
  the reader, before it stores `terminal_present`, by which the reader looks for
  the end. Fails, Looks, LooksAgain, WokenByState, Looks, LooksAgain,
  TerminalPresent: the reader sleeps on a path that has failed until a packet, a
  new state or a failing send wakes it. Where a cleanup follows, `WaitersWake` holds.

## 4. Proofs

TLAPS checks 43 theorems (listed in `PROJECT.json`), with no assumption beyond
the named `ASSUME`s on the constants. Every invariant and every action property of
every run is among them. Each rests on the inductive invariant of its module (`IInv`;
`RepairInv`, `Sound` and `DriverInv`, `PacketInv` and `MissedInv`, `ReturnInv`, `FlowInv` and
`OrderInv` where one module has several), on the initial state implying it and on
every step preserving it, proved conjunct by conjunct and action by action. TLC
checked each invariant on the module's instance before it was proved.

The assumptions are the code's: counts and limits are positive numbers, names of
different kinds differ, and where an order of two limits matters it is the code's
own (`Budget < HostWait < FollowWait` in `Shutdown`, a window and a reordering below
half the sequence space in `ReplayWindow`, `EventCapacity >= 20`, 64 in the code, in
`TurnDriver`). `FlowFrame` assumes that fewer frames are framed than half of the
sequences (2^31 in the code): a flow that goes further while the reassembler sees none
of it is beyond what a comparison of sequences can tell. The bounds on epochs, stops, runs and the like are arbitrary.

* **`SessionProofs`, the repair.** `OneRestartPerSequence` is not inductive: a reader
  that won the exchange has not restarted the worker yet. `RepairInv` adds that such
  a reader *owns* its sequence (`Owned`, `OneOwner`), that nothing above
  `lastSeq` has been touched (`Untouched`), and that the two generations are the
  cardinalities of the sets of sequences that caused them (`Counted`), which
  bounds the generations in `RepairTypeOK`.
* **`SessionProofs`, the paths.** For `ReannounceCatchesUp`, whoever has stored
  `GEN_OFFSET` or `DECLARED` has still to bump `ANNOUNCE` (`Pending`). As long as
  nobody is pending and `ANNOUNCE` is the value the session noted, all it has
  loaded is current (`Announced`, `Loaded`). `Losing` keeps `cur + 1 = joined`
  between the load and the exchange, `Rebinds` orders the epoch read, the
  sockets and the present epoch, `SeqMode` gives the intermediate states of a
  change of mode.
* **`WorkerCredentialsProofs`.** `Locking` says what the mutex protects during a
  fetch, `Leases` that generations are numbered and not reused, `Counted` that
  every lease of the cached credential is charged, `Rotated` and `BlockedIsEmpty`
  that a rotated generation is gone, `Flight` that the flag has an owner.
  `Balanced`, with `Parked`, is the converse of `Counted` while sessions only
  park: no charge without a lease or a worker that returned. It gives
  `ParkingKeepsCredential`.

* **`TurnProofs`, the core.** `Sound` ties the parts of a core together: the
  transactions that may be outstanding in each state and the one a transient state
  waits for (`Fitting`, `Outstanding`), the flags against the state (`Flags`), and that
  the deadline of the allocation is known only from its grant to its end (`Expiry`).
  Methods are compositions, so the lemmas speak of a core *value*: `EventsOnly`,
  `StateOnly`, `OperationStarts` and `AllocationEnds` say what a step of a method
  leaves alone, `OperationFits` and `FailureIsSound` what the two common endings do
  from a core whose transaction has just been taken out (`Partial`), and
  `MethodIsSound` puts them together for every method with `Step`, the relation that
  TurnPhase's actions are. The refinement `CoreImplementsPhase` follows from it, for
  any caller; `DriverImplementsPhase` is the same for the driver's rounds.
* **`TurnProofs`, the driver.** The session never looks at the core, only at events
  it takes later. So the invariant is about what the events *tell*: `Good` says that
  whoever reads all of them, starting from the copy the session has now, knows the
  state, whether the channel is gone (`Withdrawn`), and hears of a mismatch before any
  other failure (`Named`). `Grown(c, d, k)` says that a method adds at most k events
  and that they keep `Good`; it composes, so each method is treated once
  (`DriverGoesOn` collects them). An event that is dropped would end all this: `Room`
  bounds the events at every point of the round by what the rest of the round may
  add, which never exceeds 17. What `pump_native` makes of the list is a
  fold over it, and `HandledReads` treats the fold by an induction over its indices.
  `SessionSeesTheCore`, `EndsAreReported` and `MismatchesAreNamed` follow, with wakes,
  failing sends, a session that gives up and any answers in between.
* **`DataPathProofs`.** Each of the guard's duties has one goroutine. A recycle belongs to
  the task between its stop and its verdict (`OneRecycler`), a rebind in flight to
  the task that holds the present `rebindGen` in a step of the watchdog (`OneRebind`), a
  pause to a goroutine that holds the present `pauseGen`, or the host about to start
  it (`PauseIsWatched`, which is inductive with the two others). A goroutine hands a
  duty on only as it returns, and a new generation outdates the holder in the
  critical section that makes it: no duty is lost in between.
* **`ReplayWindowProofs`.** If the first packets do not straddle a wrap, a counter is the
  packet's number less a constant, since `accept_rtp` picks the one of three
  candidates that is nearest (`ExtendIsCounter`, from lemmas on quotient and rest).
  Then the ring is `Faithful`: for each packet that the window still covers it says
  whether it was accepted.
* **`ShutdownProofs`.** The argument is about time. One task leads, and time passes only
  while a wait of the leader runs that ends before its deadline; so what began
  with more time than the leader had left still has more: the followers (`InTime`)
  and the host (`HostInTime`). What the leader has used is paid for by the streams it
  tried (`Accounted`), two attempts each.
* **`EngineLifeProofs`.** A run that was quiet, or over, when the last one was spawned
  stays so (`PastLasts`); therefore the cells are those of the last run as far as it has
  come (`Wired`, `Addressed`, `CountedAlone`). The number of live sessions is a sum over the
  runs: `TotalSums` and `TotalChanges` show, by induction over sets of runs, that the sum
  exists and changes by what a step changes in its run.
* **`PacketProofs`, the way down.** `ReturnedOnce` counts how often a packet was finished;
  the invariant counts *places*. `OnePlace` says that a packet that has come from its
  relay is in exactly one of the queues, hands, batches and ends of `ReturnPath`. What
  a path holds is a term of a sum over the paths, and a step of one path changes the sum
  by what it changes there. Appending, taking the head and evicting change the count
  of a queue as lemmas on sequences say (`CountAppend`, `CountTail`, `CountConcat`).
  `Holding` (who holds a packet between two queues), `Sorted` (each queue has its class),
  `Bounded` and `DeviceInv` (only a writer of the TUN device is ever without one) are
  what the steps need besides.
* **`PacketProofs`, the way up.** `FoundOnce` is the same for the two copies of a packet
  among the sessions and the tasks. A session's queue, its writer and what it has
  stolen as it ended are places, and so is each task that carries a packet between two
  looks at a queue. `Registered` keeps the table and the tasks away from sessions that
  never began; `Empties` says that whoever rests carries nothing. `MissedIsBounded` needs
  that `interleave_turn_paths` gives every registered session a place in the list
  (`SlotsAre`), so that the reader finds a path once its copy of the table has one.
  Packets are missed only while the copy is `Stale`, and what is missed, what remains of
  the chunk and what the reader carries stay within one chunk (`MissedInv`).
* **`PacketProofs`, the count of the reassembler.** `push_at` corrects `pending_total` at each
  of its branches, by a saturating subtraction where it releases. `Counts(s, F, R)` says
  of the state it works on that the count is what the other flows hold (`R`) and what
  this one does. Each branch keeps it (`Fewer` where frames are released), so the
  subtraction never saturates. `drain_contiguous` is a recursion over sequences that ends
  because fewer frames are framed than there are sequences.
* **`PacketProofs`, the order of frames.** Sequences wrap, packets do not. The *rank* of a
  frame is how far its sequence is from the first of its flow. `Ranked` says that ranks
  follow the order of the packets and stay below half of the sequences, where
  `forward_distance` compares as ranks do (`ForwardIs`, `FrameOrder`). The sequencer is
  ahead of all ranks it gave (`Numbered`), and a flow waits for the rank after that of the
  last frame that came out, also where that was released behind a gap (`Level`). What is
  held below `expected` (`ExpectedIsNotHeld` is refuted) does no harm to the order, since
  a release takes only what lies ahead. `OrderInv` needs `total <= MaxTotal` besides: a
  full total is tested for equality, and a frame that is handed over at once is in
  order only if the room made for it has left it ahead. So the limit of the total
  is kept (`TotalIsBounded`, the assertion at `flow_frame.rs:541`), although that of a
  flow is not (`HeldIsBounded`, section 3).

Recursive functions over finite sets occur in what is proved: the sums of `EngineLife`,
`ReturnPath` and `PacketPath`, those over the flows of `FlowFrame`, and the fold over the
events in `TurnDriver`. The induction theorems of the library take an operator as
parameter, which the provers here cannot instantiate; `SetInduction` is the same
principle for a *set* of numbers, from the well-foundedness of `<` on `Nat`, and is
enough for all of them.

Only model-checked: liveness (`GoodbyeEnds`, `NetbackNotNeeded`, `DriverEnds`,
`SessionEnds`, `CancelledEnds`, `WaitersWake`), since the prover has neither fairness nor
ENABLED.

No module that is proved about uses a RECURSIVE operator.

## 5. Not modelled

* Of the dispatcher: two of the three classes of the way up (they have queues,
  cursors and code of the same form), the packet pool beyond a step that may
  fail. Of the TUN device: the threads that read and write the descriptor, and a push
  that `resume` overtakes between its two looks at the epoch.
* Of framing: which packets are framed (classification by bytes) and the token
  budget of duplicates; both are constants of the instances. The FEC codec is a
  transform.
* Of TURN: the wire format (`stun_codec.rs`, the framing of streams), the queue of
  writes of a stream (`turn_stream.rs:100`), the keepalive, the choice of an endpoint
  and the sockets.
* Of the engine: command lines, events, the calls that only read a cell, the
  monitors for stalls and statistics, and the JS mode.
* Of the data path guard: the waiting of `waitForPath` (its verdict is an
  action), the stop event, the packet port and the TUN address after a recycle.
* The counting of the stall detector of `rebind.rs`: its only effect is a wake with
  no gap (`wake::signal`), and `TurnDriver` lets a wake come at any time.
* Tunnel device, batched UDP I/O: reads and writes without protocol state.
* VK authorisation, captcha, profiles: conversations with a third party. Their
  outcomes (credentials, the same ones again, call gone, failure) are the inputs
  of `WorkerCredentials`.
* Obfuscation, encryption, name resolution, logging, platform glue, build
  scripts: transforms or I/O without protocol state.

## 6. Plan

Done, in this order, because every path of the engine depends on the first ones:
`IdleGate` with `PathSession`, `StreamRepair`, `WorkerCredentials`, `Shutdown`,
`ReplayWindow`, `DataPath`; then `TurnCore` with `TurnPhase` and `TurnDriver`, `FlowFrame`,
`PacketPath`, `ReturnPath`, `EngineLife`; the proofs of all of them, those of the
packets' ways and of the framing last. What is left:

1. The stall detector's counting, if its thresholds turn out to matter.
