# Verification of osh-tools

osh-tools runs commands on remote machines. A **daemon** (`osh-daemon`, or
`osh-daemon-gui` with a tray icon) on each machine keeps a WebSocket connection
to a **relay** (`osh-relay`). A user runs **osh** (`osh-cli`), which connects to
the relay, names a device and a command, and receives the output and the exit
code. An administrator approves devices with **osh-admin**, which edits the
relay's `devices.json` and tells the relay to reload it.

This directory holds TLA+ models of these programs, the TLC configurations that
check them, and theorems about them that TLAPS checks. `PROJECT.json` maps every
definition to the lines of the source it stands for.

## 1. Inventory

| Component | State | Operations | Talks to |
|---|---|---|---|
| Relay, client side (`osh-relay/src/relay.rs` 74-373, `server.rs`) | `clients`: device id -> sender, approval flag; one task and one write task per connection | accept, PAIR_REQUEST, DATA/EXIT/ERROR, PING/PONG, disconnect | daemon over WebSocket; device store; CLI side through `osh_sessions` |
| Relay, CLI side (`relay.rs` 375-650) | `osh_sessions`: req_id -> device, sender, connection | EXEC, INPUT, RESIZE, ADMIN_RELOAD, disconnect with KILL | osh and osh-admin over WebSocket; daemon through `clients` |
| Device store (`osh-relay/src/device_store.rs`) | `RwLock<DevicesConfig>` and the file | find, upsert (with save), reload | relay handlers; the file, shared with osh-admin |
| osh-admin (`osh-cli/src/bin/osh-admin.rs`, `osh-cli/src/config.rs`, `protocol.rs` 21-156) | none but the file it loads and saves | list, approve, reject, alias, remove, reload | the file; relay (ADMIN_RELOAD) |
| Names (`device_store.rs` 96-182, `osh-cli/src/protocol.rs` 50-156) | id and alias of every device, in the file and in the relay | look a name up, give an alias, check for duplicates | osh-admin and relay, each in its own copy |
| osh (`osh-cli/src/main.rs`, `protocol.rs` 280-515) | one request, terminal mode | EXEC, forward input, print output, exit code | relay |
| Write tasks and connections (`osh-relay/src/server.rs`) | a queue and a task for each connection | accept, write, abort | every handler |
| Heartbeats (`relay.rs` 74-157, 375-450, `osh-cli/src/main.rs` 340-400, `daemon.rs` 235-278, 368-415) | `last_activity` and a timer at each end | PING, PONG, timeout | the other end |
| Daemon life cycle (`osh-daemon/src/daemon.rs` 90-554) | `state`, `last_activity`, `disconnect_reason`, reconnect count | connect, pair, heartbeat, shutdown, reconnect | relay; front end (shutdown channel, status pipe) |
| Daemon execution (`pty_manager.rs`, `cmd_executor.rs`, `daemon.rs` 280-347, 556-645) | map of PTY processes, event channels | SPAWN, DATA, RESIZE, KILL, exit detection by two threads | operating system; relay through the send task |
| Tray application (`osh-daemon-gui/src/main.rs`) | `AppState` behind a mutex | start, stop, status, autostart | daemon task |
| Formats, configuration, logging, install scripts | - | serde structures, start-up I/O | - |

### What is hard here

* *Interleaving.* A relay handler is a tokio task that may be interleaved at
  every await. EXEC, pairing, disconnect and reload each touch two or three
  lock-protected maps in several critical sections.
* *Overlapping connections.* Nothing says that a device has one connection. A
  daemon that reconnects after a network failure is back before the relay has
  noticed the end of its old connection (the relay needs the timeout of two
  seconds, another interval and the lateness of a tick).
* *Stale values.* Pairing registers an approval that it read several awaits
  before; cleanup looks a client up again by device; reload swaps in a file it
  read earlier.
* *A file with two writers and no lock*, written by truncating it first.
* *Two owners of one state.* The daemon's heartbeat task and main loop both
  write `state` and `disconnect_reason`, under separate locks.
* *One-shot signals.* The shutdown signal is forwarded once, by broadcast.
* *Two threads per PTY process*, which report output and exit independently.
* *Two programs that look names up in two orders*, each in its own copy.
* *Timers at both ends* that measure the same silence from different moments.
* *A write task that is aborted* with answers still in its queue.
* *A tray application whose starts, stops and ends* are threads and tasks that
  all write one state, in several critical sections.

### What makes each component correct

* Relay: SPAWN only to a registered and approved client; a CLI whose EXEC was
  handled has a session or an answer, and gets one answer; a daemon that is
  gone leaves no session, a CLI that is gone leaves no process without KILL; an
  entry of `clients` belongs to a live connection, and a served connection has
  its entry; what the daemon was told agrees with the flag the relay acts on.
* Store and file: only an administrator's edit approves a device; a
  registration that was confirmed stays; what one program saves the others can
  load; an approval is in force after a reload, for the device that was meant.
* Daemon: it runs commands only while approved on this connection, notices a
  silent relay, reconnects until it is stopped, and stops when told to.
* Execution: one final message for each request, no output after it but what a
  reader already holds, no thread left behind unless a read blocks for ever, and no
  process in the table without a waiter.
* osh: it prints what the process printed, and an answer it reports is true.
* Heartbeats: a connection that works is kept, one that is cut is given up in
  bounded time, by both ends.
* Tray application: what it started it can stop; it shows no daemon that is gone.

The hazards, each with its line and the properties that would catch it, are in
`PROJECT.json`.

## 2. Modules

| Module | Models |
|---|---|
| `Relay` | both sides of the relay, with the store in memory |
| `ExecService` | what the relay promises an osh invocation (abstract) |
| `MCRelay` | instances of `Relay` |
| `Relay_proofs` | theorems about `Relay`, and its refinement of `ExecService` |
| `DeviceFile`, `MCDeviceFile`, `DeviceFile_proofs` | `devices.json`, the relay's memory, osh-admin processes, reloads, crashes |
| `Names`, `MCNames`, `Names_proofs` | ids, aliases and beginnings of ids, looked up by osh-admin and by the relay |
| `Daemon`, `Daemon_proofs` | the daemon's life cycle |
| `Lifecycle` | what the daemon promises its front end (abstract) |
| `Gui`, `Gui_proofs` | the tray application, over `Lifecycle` |
| `Executor`, `Executor_proofs` | processes, threads, tasks and channels with which the daemon executes commands |
| `Heartbeat`, `Heartbeat_proofs` | both ends of a connection in time |
| `Screen` | escaping, unescaping and filtering of output: functions on sequences of bytes |
| `OshConnection`, `MCOshConnection`, `OshConnection_proofs` | a connection of osh or osh-admin from its request to its end, with `Screen` |

How they compose: `Lifecycle` is what `Daemon` implements and what `Gui` uses, so
that `Gui` may have several daemons without their insides; `ExecService` is what
`Relay` implements; `OshConnection` takes from `Relay` that a request is refused or
accepted, from `Executor` in which order a process reports, and from `Heartbeat`
that a timeout may come; `DeviceFile` has the copies and saves of the
configuration without what is in it, `Names` what is in it with commands that do
not overlap.

### Relay

One action is what a handler does between two awaits that can block or let
another task run. The variables correspond to the code as follows.

| Variable | Code |
|---|---|
| `store`, `limit` | `DeviceStore.config`: the status of each device, `"absent"` if it is not listed, and `max_devices` |
| `clients`, `approved` | the entries of `RelayService.clients`: the connection whose sender is stored, and `ConnectedClient.approved` |
| `sessions` | `RelayService.osh_sessions`: the `device_id` of each request |
| `cpc`, `opc`, `apc` | where the task of a daemon connection, a CLI connection, an ADMIN_RELOAD is |
| `counted`, `seen`, `batch`, `todo`, `target` | local variables that live across an await: `current_count`, `existing`, `to_remove`, the rest of the reload's iteration, `device_info.device_id` |
| `told`, `answer` | the last pairing message and the first final answer that were queued |
| `broken` | connections whose write task has ended, so that every send fails |
| `host`, `killed` | the processes of the daemons, as far as the relay started them or sent KILL |

Pairing is `PairAuthFailed`, `PairExists`, `PairCount`, `PairLimitExceeded` or
`PairWithinLimit`, `PairLookup`, `PairUpsert` or `PairUpsertFails`,
`PairRegister`. The end of a process is `ClientEnd` and `ClientEndRemove`; the
disconnect of a daemon `ClientLeave`, `DisconnectRemove`, `DisconnectScan`,
`DisconnectPurge`. EXEC is `ExecRefused` or `ExecFind`, `ExecClient`,
`ExecSpawn`; the disconnect of a CLI `OshClose`, `CleanupKill`, `CleanupDrop`. A
reload is `ReloadSwap`, `ReloadLock`, and one `ReloadOne` for each client.

The lock of `osh_sessions` and the store's lock are never held over an await of
another lock, so their critical sections are atomic actions. The `clients` lock
is held for reading by EXEC while it waits for `osh_sessions` (`opc = "locked"`)
and for writing by a reload that awaits the store for each client
(`apc = "walk"`); `ClientsReadable` and `ClientsWritable` are these conflicts.

Abstracted: payloads, output, RESIZE, INPUT to a live session, PING and PONG
change no state the properties see. Time is a choice: a connection may end at
any moment, which covers the heartbeat timeout. A request id is fresh (uuid v4)
and an osh process sends one EXEC, so a member of `Reqs` is the request and its
connection. Which device a name means is a free choice (`ExecRefused`,
`ExecFind`). A reload replaces the store by any
configuration, the limit by any of `Limits`; that it may replace the secret key too is
left out, for a key is wrong or right by choice (`PairAuthFailed`).

`ExecService` has one state machine for each invocation: idle, submitted,
running, answered, gone. Phases are the image of `opc` and `answer` (`PhaseOf`),
and locks, connections and devices are invisible.

### DeviceFile

`mem` is the relay's configuration, `file` the file: a configuration, `Empty`
(truncated, or a crash after that), or `Garbled` (a short text written over the
beginning of a longer one by two writers that overlapped; it does not parse). A
save is two steps, and the relay holds the write lock of its store across both
(`saving`). `edited` and `loaded` are the copies an osh-admin process and a
reload hold between their read and their write. `told`, `granted` and `alone` only
record what happened and are read by no guard. A missing file, which the relay
replaces by a default, is not modelled. A save may fail before it touches the file, or
after truncating it (`PairSaveFails`). `MaxDevices` is fixed here; `Relay` has a limit
that reloads change. Time stamps, names and aliases are
abstracted; `osh-admin alias` is a save that changes no status.

### Names

`file` and `mem` are `devices.json` and `DeviceStore.config`, as a status and an
alias for each id. A string is a member of `Names`, and `Begins` says which id
begins with which. `AdminFinds` is `find_device_mut` and `remove_device` of
osh-cli (alias, id, beginning), `RelayFinds` is `find_device` of the relay (id,
alias, beginning), `Valid` is what both programs demand of a file. `SetStatus`,
`Alias` and `Remove` are the osh-admin commands, each from load to save in one
step, for their overlap is the subject of `DeviceFile`; `PairLookup` and
`PairUpsert` are the pairing handler's look at the store and its write, between
which other tasks run. `clean` and `asked` are history.

### Daemon

`loop` is the position of `run_with_shutdown` and of the main loop of its
current connection, `heart` that of the heartbeat task, `signal` and `heard` the
path of the shutdown signal: mpsc channel, forwarding task, broadcast receiver
of the connection. `stale` says that more than HEARTBEAT_TIMEOUT has passed since
`last_activity`; `Silence` sets it at any moment and a message clears it. The
relay may send any message at any time. A connection subscribes to the signal when it
is attempted (`Reconnect`), not when the daemon starts (`Start`). `Lifecycle` is the view of a front end:
a call fails at once, or stays up until it stops, which takes a signal that was
sent and forwarded.

### Gui

Each start is a thread (`thread`: spawn the daemon, store its sender, listen) and a
daemon, whose `phase` and `signal` are those of `Lifecycle`. `running`, `tx` and
`status` are `AppState`, `menu` the item that is enabled. `tx` holds a daemon, for
the sender that belongs to it; a stop thread in `sending` holds a clone, and a
channel closes with its last sender (`Release`). `Reset` is the end of a daemon
task, which resets the state, whoever's it is. A status arrives through the listeners
of the pipe on Windows (`pipe`) and through a thread that reads the log file
elsewhere (`monitor`); `windows` is the platform. `calm` is history. Icons, the
autostart entry and the editor for the configuration are left out; quitting ends the
process and with it everything.

### Executor

One connection of the daemon, approved, with its processes. `table` and `exited`
are `PtyManager.processes` and the flags of its entries; `waiter` and `reader` are
the positions of the two threads of a PTY process; `cmd` and `report` are the task
of a command without a PTY and what it has still to send. `queue` holds the three
mpsc channels, `open` those whose receiver lives: a send waits for room
(`Room`), and to a channel without a receiver it fails, which every sender
ignores (`Put`). `loop` is what the main loop waits for: room for a PONG or an
ERROR, or a PTY that does not take its input at once; in the second case it holds
the mutex of the table (`TableFree`). `proc` and `output` are the process the waiter
waits for and what the PTY holds for the reader. Whoever has the terminal open may write,
also a descendant when the process has ended, as long as the daemon holds an end of the
PTY (`PtyOpen`); who writes into a full PTY is blocked, so there is no step. A read may
fail at any time (`ReaderFails`), whether or not the process has ended: the reader then
tries again, or has given up (`"failed"`), after five errors in a row or, on Windows, a
broken pipe. `wait` may fail too, which the waiter takes for an end (`WaitFails`), and a
spawn that fails may leave a process that runs with no threads (`SpawnFails`). A
connection that ends (`End`) aborts the tasks, while threads and processes go on.
`ended` and `late` record what the relay got. The next connection has a manager and
channels of its own, so nothing of an old one can reach it.

### Heartbeat

`age` is the time since `last_activity` at each end, `due` the time until the next tick of
its timer, which keeps its pace when a tick is late (tokio's default). `wire` holds the
messages on their way to each end with the time they have left. Delay and lateness
are at most `delay` and `late`, chosen once, and anything in between may happen:
a message may be delivered, or a tick taken, as soon as it can, and time passes
(`Elapse`) as long as nothing is due (`Urgent`). `Cut` loses everything from then on.
A peer is an osh, whose loop looks at the silence at a tick like the relay's, or a
daemon, whose heartbeat task does so and ends (`"mute"`), while its main loop leaves
when its own look is due. The delay includes the time until the receiver gets round
to a message, so a main loop that is busy with a command is a long delay. The code starts its
read timer only when a message has been handled (`daemon.rs` 368-415): the time that takes
is part of that message's delay, and of the bound.

### OshConnection and Screen

The queues are `inbox` (to the relay), `queue` (the channel of the write task) and
`outbox` (written to the socket). `handler` is `handle_osh_connection` with
`run_osh_message_loop`: when it returns, the write task is aborted and `queue` is lost.
`session` is the entry of `osh_sessions`; `daemon` is the relay's handler of the daemon's
connection, which forwards an end and then removes the session, in two critical
sections. `OnData` cuts the output anywhere; for a PTY the end may come before the
output. `peer` is `"run"` or how osh or osh-admin has ended.

`Screen` has the conversions as functions on sequences of numbers: `Escape`
(daemon), `Unescape` and `Filter` (osh), by cases as in the code, with the hexadecimal
digits that `from_str_radix` accepts and the lists of terminal sequences.

## 3. Runs

| Run | Instance | Checks |
|---|---|---|
| `relay_apart` | 2 devices with a connection each, 1 CLI, reload, failing saves, limit 1 | `TypeOK`, `ServedIsOnline`, `NoOrphanProcess`, `PairingRespectsLimit` |
| `relay_overlap` | 1 device, 2 connections of it, 1 CLI, reload | `SpawnIsAuthorised`, `SessionHasClient`, `NeverDropped`, `NoDanglingSender`, `ToldMatchesFlag`, `ImplementsService` |
| `relay_liveness` | 1 device, 1 connection, 1 CLI, reload, failing saves | `ExecResolved`, `DisconnectFinishes`, `CleanupFinishes`, `ReloadFinishes` |
| `device_all` | 2 devices that pair, 2 osh-admin, 1 reload, crashes, failing saves, limit 1 | `TypeOK`, `OnlyGranted`, `FileIsMemory`, `RegistrationKept` |
| `daemon` | the whole state space | `DaemonTypeOK`, `CommandsApproved`, `ImplementsLifecycle`, `SilenceNoticed`, `Reconnects`, `SignalEndsConnection` |
| `executor` | 1 process with a PTY, 1 command without, channels of one message | `ExecutorTypeOK`, `OneFinal`, `LateOutputBounded`, `CommandEndsLast`, `TableWatched`, `ExitReported`, `ReaderStops`, `ReplyReturns` |
| `names` | 2 devices of which one's id begins with the other's, 4 names | `Loadable`, `EditApplies` |
| `gui` | 2 starts, both platforms | `Stoppable`, `NoGhost` |
| `heartbeat` | an interval of 2 and a timeout of 4 half seconds, delay and lateness 0 to 2 | `LiveKept`, `NoticedInTime` |
| `connection` | 1 input, 1 PING, outputs of up to 4 bytes | `TextPrinted`, `AnswerTrue` |

Bounds. Connection slots and reloads are used again and again, and so are device
ids, so runs are unbounded in length. Two connections of one device are the
least with which one can be the successor of another, and three add only a
further successor; two devices are the least that compete for a slot of the
store, and a limit of 1 makes it bite; in `relay_liveness` reloads change it between 0
and 1. A request is used once, because
its id is fresh; requests meet only in the locks and in the end of their daemon,
which treats its sessions one by one. Two osh-admin processes are the least whose
saves can overlap. Liveness is checked on one connection, where the handlers still
compete for every lock with each other; what two connections of a device leave
behind is the subject of the safety properties of `relay_overlap`. Channels of one message
are full at once, so that every sender waits behind every other; a PTY that holds
one read's worth of output lets a process write, be read and be blocked. The
proofs in section 5 drop the bounds for the safety properties.

In `names` the name `a` is the beginning of both ids, `ab` an id and the beginning of the
other, `x` can only be an alias, and every id can be an alias, which are all the
ways in which names can collide; one of the devices pairs, so that the other
is never pushed back. In `gui` two starts are the least of which one can meet the end of
the other. In `heartbeat` half a second is the unit, so that phases of the two timers can differ by
less than an interval, and delays and lateness go beyond what the timeout
allows: the bound of `NoticedInTime` is tight (a smaller one is violated with a delay of 2 and a
lateness of 1), and so is the condition of `LiveKept`. In `connection` the outputs are all those of
up to two bytes out of a letter, BEL, a line feed, ESC and a backslash, and four longer ones that
hold a whole sequence or code; one input can cross one answer, and one PING can
come before, between or after other messages.

Deadlock is checked in `heartbeat`, where time must be able to pass. Elsewhere it is not: the
systems may rest, with every request closed, every edit made, or the daemon
stopped.

Symmetry is used in `relay_apart` (the devices together with their connections)
and in `device_all` (devices), whose properties and initial states treat them
alike; neither checks liveness.

### Violations

Each of these runs states what a comment or a message of the repository says,
and TLC finds a behaviour of the code against it.

| Run | Property | What happens |
|---|---|---|
| `stale_disconnect` | `ServedIsOnline` | The cleanup of an older connection removes the entry of the newer connection of the device (`relay.rs` 350). The daemon is paired and served, but EXEC answers DEVICE_OFFLINE until it reconnects. |
| `reload_ping` | `ReloadHonest` | The first tick of the relay's timer comes at once (`relay.rs` 389), so a PING may be queued before the answer; osh-admin takes the first message for the answer (`bin/osh-admin.rs` 213) and reports an unexpected response of a reload that was done. |

`ServedIsOnline` holds when no two connections have one device (`relay_apart`, and
proved): the two runs say what the code needs.

More behaviours of the models that one would not want, without a run of their own.
Relay and store:

* With two connections of a device, `NoOrphanProcess` fails like `ServedIsOnline`:
  KILL goes to the newer connection while the process runs behind the older one
  (`relay.rs` 476).
* A device that a reload removes while it pairs is pushed back with the status it
  had, approved for instance (`device_store.rs` 226).
* A reload that read the file before a registration and swaps after it forgets the
  device (`device_store.rs` 131-133); `RegistrationKept` is therefore about the time
  without reloads and edits.
* A reload between the look at the store and the registration misses the client: its
  flag stays behind the store until the next reload (`relay.rs` 288). What still holds is
  `ToldMatchesFlag`.
* A pairing between an edit and the reload saves the relay's memory over the edit
  (`device_store.rs` 230): `EditApplies` is about edits nobody has saved over.
* `osh-admin alias` lets an alias pass whose first holder has an id that begins with the
  name it was given (`bin/osh-admin.rs` 156-161). If that name means another device by
  then, two devices have one alias, and nobody can load the file any more.
  `Loadable` says that this takes an ambiguous name.
* A name that is one device's id and another's alias means the one to the relay and the
  other to osh-admin. `EditApplies` says that this is the only way.

Daemon:

* The shutdown signal is broadcast once; while no connection listens, between two
  attempts or in one that fails, it is lost, and the daemon goes on (`daemon.rs`
  118, 191). A daemon that has taken it may connect again too, because the heartbeat
  task overwrites the reason UserInitiated with HeartbeatTimeout (`daemon.rs` 266).
  `SignalEndsConnection` says what holds.
* KILL forgets the process and signals nothing: a silent process runs on, and its
  reader, blocked in read, keeps the PTY open (`pty_manager.rs` 341).
* An input that the PTY does not take blocks the main loop with the table locked
  (`pty_manager.rs` 312). If the process does not read before its own output is
  read, neither ever moves, and the other processes wait for the table too. The
  liveness properties of `executor` are stated for a table that is free again and
  again.
* Output that a process wrote just before it ended may be lost, or come after EXIT,
  which the relay drops (`pty_manager.rs` 182-194). `LateOutputBounded` says how much.
* A reader gives up after five read errors in a row, or a broken pipe on Windows, without a
  look at the process (`pty_manager.rs` 263-298). If that lives on, it fills its PTY
  and blocks, nothing is reported and the entry stays: `TableWatched` says that this is the
  only way in which a process in the table loses its reader.
* A process that outlives the shell and keeps the terminal open, one started with `setsid`
  for instance, keeps the reader in its read (`pty_manager.rs` 230), with a clone of the
  PTY's master. `ReaderStops` says that this is the only way for a reader not to stop.
* A PTY whose reader or writer cannot be made is reported as an ERROR although its process
  was started (`pty_manager.rs` 95-102).
* A daemon whose heartbeat task has declared Disconnected while its main loop was busy goes on
  with the connection if the relay speaks again, answers PING and ignores every command
  (`daemon.rs` 265).

Tray application (`Stoppable` and `NoGhost` exclude these by `calm` and by their
conditions, and hold otherwise):

* A stop before the start's thread has stored the sender finds none: the daemon runs on,
  and the menu offers a start (`main.rs` 271-282).
* A start while the previous daemon is still ending: the old one's end takes the new one's
  sender (`main.rs` 271).
* A daemon that fails at once may end before its sender is stored: the tray shows it
  as running (`main.rs` 282).
* Outside Windows the thread that reads the log ends at its first look, half a second after
  the application starts, unless a daemon runs by then (`main.rs` 414): the
  status stays at Connecting. A status for which no pipe waits is lost on Windows.

osh:

* A terminal sequence that falls into two DATA messages is printed, because each
  message is filtered by itself (`osh-cli/src/protocol.rs` 292).
* A process that prints a backslash and `x41` has an `A` printed instead, PTY or not, for the
  daemon does not escape backslashes (`daemon.rs` 649); `\x+1` is a code too.
  `TextPrinted` is therefore about output without ESC and backslash.

## 4. Fairness

`RelayFairness`. Tokio runs every task that can run, so each step of a handler
has weak fairness. Its RwLock queues its waiters in order, so who waits for
`clients` gets it although others keep taking it: strong fairness for
`PairRegister`, `DisconnectRemove`, `ExecClient`, `CleanupKill` and `ReloadLock`.
A connection whose sends fail is left, because the next ping fails (`relay.rs`
85-157). Nothing is assumed of daemons, processes, networks, CLIs or
administrators: a process may run for ever, a connection may stay for ever, and
a new connection need not send a pairing request.

`DaemonFairness`. The tasks run; a connection attempt succeeds or fails; a wait
ends. `tokio::select!` polls its branches in random order, so a signal that
waits is taken although messages keep coming (strong fairness of
`TakeShutdown`). Nothing is assumed of the relay or the user. That a command the
loop executes ends is what `Executor` looks into: it does, but for an input that
its process never reads.

`ExecutorFairness`. Threads and tasks that can run do. Tokio's channels queue their
senders in order, and the operating system lets a thread that waits for the mutex
have it in the end: strong fairness for what waits for a channel or the table. A
write to the socket ends or fails, and a read returns when there is output. Nothing else is
assumed: processes may run, write or be silent for ever, also when their PTY has been
closed, and a read with no output may return, fail or block for ever. `ReaderStops` is
therefore about a reader whose reads return (`[]<>(reader[r] # "read")`) and a table that is
free again and again, and promises an end for `"done"` or `"failed"`; `ExitReported` is about
processes that have ended.

`Names`, `Gui`, `Heartbeat` and `OshConnection` have no fairness and no liveness properties. In
`Heartbeat` time does that work: what must happen is bounded by what must be
done before time passes.

## 5. Proofs

`Relay_proofs`, for all sets of devices, connections, requests and reloads, any
`DevOf` and any limits. The assumptions are those of the module: `None` is neither
a device nor a connection, `DevOf` is a function, the devices are finitely many, as the
entries of a list are, and limits are natural numbers.

* `TypeCorrect`: `Spec => []TypeOK`.
* `Inductive`: the invariant behind the five safety properties. The properties
  alone are not inductive; what is added says that the `clients` lock excludes
  the reload's walk from an EXEC that waits (else a flag could change between
  check and SPAWN), that a request has a target from `"found"` on and no session
  and no answer before `ExecSpawn` except as its handler gives them, and that
  whatever is in the `batch` of a connection that is about to remove it already
  has an answer. Each part has a lemma of its own (`LockStep`, `TargetStep`,
  `AnswerStep`, `OwnerStep`, `EntryStep`).
* `SpawnAuthorised`, `SessionsHaveClients`, `CliNeverDropped`,
  `EntriesHaveConnections`, `FlagsMatchMessages`: the safety properties of
  `relay_overlap`, with overlapping connections.
* `ServedOnline`, `NoOrphans`: under the assumption, stated in each theorem, that
  no two connections have one device; without it they are the violations above.

* `PairingKeepsLimit`: the handler reads count and limit and pushes in three critical
  sections, between which a reload may change all of it, but the push looks again
  (`UpsertWithinLimit`), and nothing but a pairing or a reload changes the store (`StoreStep`).
* `RelayImplementsService`: `Spec` implements `ExecService!ServiceSpec` under the
  refinement mapping. It rests on the inductive invariant: a step that answers may
  only answer requests that run.

`DeviceFile_proofs`: `TypeCorrect`; `ApprovalsGranted`, by the invariant that
every copy of the configuration, wherever it is held, is granted;
`FileFollowsMemory`, by the invariant that who saves holds the lock and finds the
file as it truncated it; and `RegistrationsKept`, which needs that invariant too,
because a crash takes memory back to the file. Both are about the time in which
only pairings change the file, which the history variable `alone` tells.

`Names_proofs`, for any ids, names and beginnings (`NamesAssumption`: ids are names, an id begins
with itself): `TypeCorrect`; `FilesLoad`, by the invariant that both copies are valid as long as
`clean` holds, where a pairing that finds its device removed adds one without an
alias; `EditsApply`, by the invariant that what the administrator asked for is in the
file for the device that osh-admin finds by that name now, which a step that
could change what the name means resets.

`Daemon_proofs` (`Daemon` has no constants, and its run explores the whole state space; the
proofs say why it holds): `TypeCorrect`; `CommandsNeedApproval`, by the
invariant that the state Approved was told on this connection;
`DaemonImplementsLifecycle`, by the invariant that a loop which ends on request has had a
signal forwarded (`StopsForwarded`).

`Gui_proofs`, for any number of starts: `TypeCorrect`; `GuiUsesLifecycle`, that whatever threads and
tasks do, they use the daemons as `Lifecycle` allows; `DaemonsStoppable`, which while
`calm` holds needs that at most one daemon lives and that its sender is where the menu
says (`StartsOrdered` orders thread, task and state); `NoGhostShown`, by the invariant that
when nothing lives the last thing that was done to the state was a reset, and that no
listener can write a status after it.

`Heartbeat_proofs`, for any interval, timeout, delays and lateness with interval at most
timeout and timeout at most twice the interval (the code has one and two seconds):
`TypeCorrect`; `SilenceNoticed`, by the invariant that the silence an end has heard, and the
time to its next tick, bound how long the cut can have lasted (`Silence`, `Paced`); `WorkingKept`, by
the invariant that the other end's next PING, or one on its way, arrives in
time, which relates `age` at one end to `due` at the other and to the oldest message
between them.

`Executor_proofs`, for any processes, commands and capacities:

* `ProcessesWatched`: whatever is in the table has a waiter that will take it out, and its
  reader has stopped at the flag or the table only if the waiter is about to do so; a reader
  that gave up on errors is `"failed"` and not covered. The invariant adds that the flag
  of an entry that is still in the table was set by its waiter (`FlagOfWaiter`): a kill sets
  the flag too, but not without removing the entry.
* `TypeCorrect`: the types, with what each sender may put into its channel
  (`QueuesOK`, `RoutesOK`), which the proofs about messages need.
* `OneFinalMessage`: at every moment the report of a request's end is in at most one place,
  a thread's hand, one of the channels, or the relay, and whoever reports
  it has used up the right to do so, an entry of the table or a running command
  (`FinalOnce`). Steps are seen through `Effect`: what each does to the messages of one
  request, which the proofs about order use again.
* `CommandEndIsLast`: in each channel the data of a command is ahead of its end, and while
  the end is in one channel or with the relay no data is in an earlier one (`CmdOrder`).
* `LateOutput`: the end of a process was announced to its reader before it can be
  reported (`Announced`), and behind the end there is at most one message, in the
  reader's hand, in a channel or already with the relay (`PtyOrder`).

`OshConnection_proofs`, for any outputs, inputs and pings (`OshAssumption`: outputs are
sequences of bytes):

* `AnswersTrue`. Steps are seen through what they send (`SentStep`: each message with its
  cause), read (`InboxStep`) and make of the peer (`PeerSteps`). The invariant says of each
  answer what is true while it is on its way: `EndsTrue` of an end, `RefusedEarly` of a
  refusal, `ReloadTold` of a reload. That osh is never told its request is unknown takes two
  parts: as long as the relay reads what osh sends, a request without a session that is
  served has been answered or osh has gone (`Remembered`), and so every INVALID_REQ_ID in
  the queue or on its way is behind an answer (`Preceded`), with which osh ends.
* `UnescapeEscaped` and `DisplayedPlain`: what osh makes of a message of plain text is the
  text. The functions of `Screen` are recursive, so each of these takes three steps:
  that the recursion has a solution, that a solution has the value it should at each
  place, and the value at the first. The library's induction theorems have an operator
  for a parameter and cannot be used here; the steps go by the least place at which the
  claim would fail (`Least`, from the well-foundedness of the natural numbers).
* `TextAppears`: what is shown, what the messages on their way will show, and what the
  daemon still has are the text, in this order (`TextWay`). `Leads` says of a sequence of messages that
  it shows the text from one place to another; each step takes a message off its head,
  adds one to its end or cuts it. Something may be missing only behind the last
  message, and then nothing will follow: the relay does not learn to know a
  request again that it has forgotten (`OpenStep`).

Only model-checked: all liveness (fairness and ENABLED are beyond the prover): the
temporal properties of `relay_liveness`, `daemon` and `executor`.

## 6. Not modelled, and the plan

Modelled: relay, store and file, names, daemon, execution, heartbeats, the connection of osh
and osh-admin, the tray application. Proved: every safety property that a run checks. What is left
to do:

1. What two connections of one device leave behind (`relay_overlap`) has no liveness
   property; a run on one device and one request would be small enough.
2. A lemma that `Filter` drops what it says of a single sequence, so that the
   display of colours is stated for every parameter and not only for the outputs of the run.

Left out for good, because there is no behaviour to get wrong but I/O: serde structures,
configuration and log files, start-up, the install and release scripts, raw mode and size of
osh's terminal, and the icons, the autostart entry and the configuration editor of the tray
application. RESIZE and time stamps change nothing that a property sees.
