# godot-mcp-go in TLA+

godot-mcp-go is an MCP server for the Godot editor. AI clients call tools over
HTTP (or stdio); some tools read project files, the interesting ones reach into
a Godot editor plugin, or into a game the plugin launched, and wait for the
answer. The Go server, the editor plugin and the companion inside each game are
three programs that talk over MCP sessions which expire, reconnect and lose
requests. The modules here model that traffic: which message reaches which method
and under which checks, who may answer what, which game belongs to whom, what is
fresh, which stream a session has, what happens to a diagnostics entry on its way,
and which prompts are served while their files change.

## Inventory

| Component | State | Operations | Interacts with | What is hard | What makes it correct |
|---|---|---|---|---|---|
| Command broker (`runtimebridge/command_broker.go`) | pending table, one buffered channel per command, metrics | `DispatchAndWait`, `Ack` | callers' goroutines; the stream to a plugin; the plugin's `command.ack` | acknowledgement against timeout against failed send; duplicates; foreign sessions | one genuine answer, no leak, every call returns, counters balance |
| Game session registry (`game_session_registry.go`) | `bySessionID`, `byEditorSessionID`, `byRuntimeSession` | upsert, register, mark, stop, remove, sweep | all project and bridge tools, session expiry | two indexes against the records under transfers, stops, removals | indexes and records agree, a stopped game owns no transport |
| Project and bridge tools (`tools/project/tools.go`, `tools/runtime/bridge_tools.go`) | locals of each request | `project.run`, `project.stop`, `runtime.register`, `snapshot.push`, `log.push` | broker, registry, both stores | checks and updates in separate lock sections, handlers interleave | what a success says is true; nobody else's game is cut off |
| Editor plugin (`godot_mcp.gd`) | active game, handshake file, playing | run (with attach), stop | server, companion through the file | the launch that wins when a game already plays | the game named is the game run or stopped |
| Runtime companion (`runtime_companion.gd`) | handshake, `is_registered`, log buffer, `log_push_in_flight` | bootstrap, register, push snapshots and logs, commands | its HTTP client, the server | retries, refused pushes, lost connections | diagnostics arrive once and in order |
| Plugin HTTP client (`mcp_server.gd`, `runtime_mcp_server.gd`, and the interfaces) | one request in flight, queue, session id, event stream | connect, send, flush, reconnect, disconnect | server | cancelled callbacks, 404, deferred reconnects | no request is sent twice, a reconnect asked for happens |
| Snapshot stores (`store.go`, `runtime_snapshot_store.go`) | timestamp per session, latest session, observed states | upsert, touch, remove, configure, queries, `Await` | tools, expiry | clocks read before the lock, lost wakeups, deadlines | the latest is the newest, waiting calls return |
| Runtime log store (`runtime_log_store.go`) | bounded list per game, next sequence number | append, get, clear, remove | log tools, companion | clear against pushes under way | no duplicate, what is cleared stays away |
| HTTP session manager and streams (`transport/http`) | session records, one bound stream each | initialize, touch, bind, remove, clean up | everything above | re-initialize, replaced streams, expiry | a session is dropped only when idle, a stream belongs to one session |
| Prompt catalog (`promptcatalog`, `prompt_catalog_runtime.go`) | loaded prompts, fingerprint | reload, watch, poll | file system, notifications | the source changes while it is read | what is served is what was fingerprinted |
| HTTP dispatch (`router.go`, `session.go`) | accepted, initialized, mutating of each session | initialize, initialized, every other method, DELETE | all below | a request takes the session manager's lock many times while others change the session | a client is served and granted what it was told |
| Tool pipeline (`internal/application/toolpipeline`) | none | the gates before a tool runs | tool manager, session flags | order of the gates | no mutating tool without the capability, no bridge tool refused |
| Shared methods (`transport/shared`) | none | frames, lists and pages, prompts | prompt catalog | cursors into a list that changes, nested governance roots | a walk ends and is complete, restricted prompts are not executed |
| stdio transport (`transport/stdio`) | lifecycle flags | one session | stdin, stdout | order of initialize and initialized, frames it cannot read | requests only after initialization, each one answered |
| File tools, configuration, logging, dialogs | files | reads and writes | disk | none over time | sequential |

Interactions: a tool handler runs in the goroutine of its HTTP request. It takes
the lock of one store at a time and never two, except that the session manager
holds its own lock while it forgets a session's game in three stores. Commands
leave through the event stream of the plugin's MCP session, and the plugin answers
with a tool call in another request. The editor plugin and a game share only the
handshake file.

## Modules

| Module | Models | Follows |
|---|---|---|
| `CommandContract` | what the broker promises, without table, channel, timer or metric | abstract specification |
| `CommandBroker` | `DispatchAndWait` and `Ack`, one action per lock section, channel operation or timer step | `command_broker.go`, `notify.go`, `BridgeCommandAckTool` |
| `CommandBrokerProofs` | theorems about it | |
| `GameSessionRegistry` | every method of the registry, one action each (a method holds the lock throughout) | `game_session_registry.go` |
| `GameSessionRegistryProofs` | theorems about it | |
| `RuntimeBridge` | the handlers that use the registry and the stores, session expiry, the editor plugin and game processes; extends `GameSessionRegistry` | `tools/project`, `tools/runtime`, `session.go`, `godot_mcp.gd`, `runtime_companion.gd` |
| `RuntimeBridgeProofs` | theorems about it; extends `GameSessionRegistryProofs` | |
| `FreshnessStore` | both snapshot stores | `store.go`, `runtime_snapshot_store.go` |
| `SnapshotAwait` | `Await`; extends `FreshnessStore` | `runtime_snapshot_store.go` |
| `SnapshotAwaitProofs` | theorems about both | |
| `RuntimeLogs` | a diagnostics entry from the companion's buffer to the server's store, and `log.clear` | `runtime_companion.gd`, `runtime_mcp_server.gd`, `runtime_mcp_interface.gd`, `runtime_log_store.go` |
| `RuntimeLogsProofs` | theorems about it | |
| `SessionStreams` | sessions coming and going, the event stream bound to each, notifications written to it | `session.go`, `router.go`, `streamable.go`, `SendJSONRPCNotificationToSession` |
| `SessionStreamsProofs` | theorems about it | |
| `PromptCatalog` | the load of the prompts, polling and event watch, the reload tool, `list_changed` | `prompt_catalog_runtime.go`, `registry.go` of `promptcatalog` |
| `PromptCatalogProofs` | theorems about it | |
| `ToolPipeline` | the outcome of a tools/call, as operators | `pipeline.go`, `toolspec.go` |
| `SharedMethods` | frames, pages and prompts, as operators | `transport/shared/helpers.go` |
| `Dispatch` | sessions and requests from the transport to the method, over HTTP and stdio; extends the two above | `router.go`, `session.go`, `stdio/server.go`, `version.go` |
| `DispatchProofs` | theorems about it | |
| `MC*` | instances for TLC | |

How state and actions correspond to the code:

* **CommandBroker.** `pc[c]` is the place of one call of `DispatchAndWait`. The
  table entry is made (`Register`) before the metrics are stepped
  (`CountDispatch`), and the notification can reach the plugin (`Deliver`) before
  `sendToSession` has returned (`SendSucceeds`, `SendFails`): an answer may arrive
  in that window, and a send may fail after the bytes left. `ReceiveAck` and
  `ReceiveTimeout` are both enabled when both arms of the `select` are ready.
  `Ack` is two steps, the deletion under the lock (`AckTake`) and the
  non-blocking offer (`AckOffer`). Command ids are drawn fresh from an atomic
  counter, so a call is its id. The answer's payload is left out.
* **GameSessionRegistry.** `session[g]` is the zero record where `bySessionID` has
  no entry. Trimming of strings and times is left out. Since start times are not
  kept, `LatestRunning` is the set of candidates.
* **RuntimeBridge.** `call[k]` is one request, its `pc` names the next lock
  section. Commands appear as what the contract of the broker promises: one
  answer, or none; a command its caller gave up on may still be handled
  (`Unclaimed`). `snap[g]` records which launch the stored snapshot came from,
  nothing else. `handshake[e]` is the file. `Boot` lets a game process start, and
  `GameExits`, `UserPlays` are what a user does at the editor. `alone` is history:
  no other request overlapped this one, the plugin handled no command its caller had
  given up on, and no registration arrived late (`Late`), after its game had ended
  or had been launched anew.
* **FreshnessStore.** `at` and `held` are `bySessionID`; `last` is `lastStates`.
  Each update takes the time its caller brought, up to `Lag` ticks old, since
  every caller reads the clock before it waits for the lock. The transition
  counters are left out. `Health` is a query of every entry.
* **SnapshotAwait.** A waiting call is `ready` (about to look, under the lock) or
  `parked` on the condition variable. The timer fires once, strictly after the
  deadline: the code computes the deadline before it arms the timer, so the
  monotonic clock has moved past it when the timer's function runs. A clock that
  does not advance in between would break this; it is the one assumption taken
  from the platform.
* **RuntimeLogs.** `out` is the request in flight with the server's progress,
  `queue` is `pending_messages`. A handler whose client has lost its connection
  goes on (`orphans`), be it of a push, a registration or an acknowledgement. Only
  register, log.push and command.ack messages are followed. The handshake the
  companion drops after a refused registration is no variable: the timer tick that
  registers again loads it first.
* **SessionStreams.** `get[h]` is the handler of one GET and its transport, `of[h]`
  its session, `done` its context. `mu` is the session manager's lock as long as an
  operation waits to close a stream (`SetTransport` then `FinishSetTransport`, and
  so on; `doomed` is the rest of a sweep); an operation that closes nothing is one
  step that needs the lock free. `writer[h]` is the stream's lock. `Close` sets
  `closed` and ends the context in one step, where the code releases the stream's
  lock in between. `stale` stands for every `LastSeen` older than the timeout. An
  initialize is let in (`InitializeNew`, `InitializeAgain`) in one lock section and
  creates its session in another, so a session can come back after its DELETE.
* **PromptCatalog.** A file is the stamp of its last write, 0 when absent; stamps
  are unique, so a fingerprint is the stamps of all files. Each scan (`before`,
  `load`, `after`) reads one file per step. `reloadMu` is the reload lock, and
  `pre` the fingerprint a watcher takes before it asks for it. A reload goes on
  (`Retry`) until its two fingerprints agree or the limit is hit (`gaveUp`).
  `events` and `debounce` are the watcher's channel and timer; a file raises
  events when its directory is `watched`. `held`, `told` and `early` are what a
  client knows. Parsing a `SKILL.md` is the constant `Text`.
* **ToolPipeline** and **SharedMethods** have no state. A frame, a call, a template
  is a record of what the checks look at; text is a length, a path the sequence of
  its components, a value its JSON type. The operators follow the order of the
  early returns.
* **Dispatch.** `job[h]` is the goroutine of a request, its `at` names the next
  section under a lock: `Touch`, then `Create`, `Accept`, `Grant` for an
  initialize, `Mark` for initialized, `Check`, `Context`, `Call` for a tool, `Count`,
  `Errors`, `ServePrompts` for prompts, `Has`, `RemoveSession` for DELETE. What
  needs no lock is decided when the request arrives (`EarlyAnswer`). `told[s]` and
  `reply` are history: what the client of a session has been told, and the last
  answer with the session as its client knew it. A request is `clean` when it
  overlaps no change of its session; only then can its client rely on an answer.
  stdio handles one message per step (`StdioMessage`), with the flags in the entry
  of an id of its own.

## Runs

| Run | Question | Result |
|---|---|---|
| `command_broker` | table, answers and metrics of two overlapping commands, three acknowledgement calls; the broker implements `CommandContract`; every dispatch returns | holds |
| `registry` | indexes and records agree under any sequence of calls; a stopped game can be reached through no transport | holds |
| `runtime_bridge` | two overlapping requests against the plugin and two game processes; what a run launches can register | holds |
| `snapshot_await` | latest session and observed states with late updates; no lost wakeup, every call of `Await` returns | holds |
| `runtime_logs` | order and completeness of the log stream, `log.clear` | holds |
| `session_streams` | event streams replaced, left, removed and swept under a write | holds |
| `prompt_catalog` | what is recorded is served, clients hear of changes, a watched source is followed in the end | holds |
| `dispatch` | handshake, capability, tool policy, answers, governance and paging in every scenario | holds |
| `stop_race` | a stop with no other request leaves the game stopped | violated |
| `early_success` | a run succeeds only after this launch registered and was seen | violated |
| `runtime_logs_stuck` | buffered diagnostics are sent in the end | violated |
| `prompt_fallback` | without an event watch the source is still followed | violated |

What the four violated runs show:

* **stop_race.** `snapshot.push` checks that the caller owns the game, then stores
  the snapshot, then marks the game running. A stop between the check and the
  store returns success, and the push then brings the snapshot back and sets the
  running flag. The tests of `project.stop` expect both to be gone.
* **early_success.** `project.run` with a session id that ran before finds the old
  process's fresh snapshot, and returns before the new process registered.
  `docs/TOOL_CONTRACT.md` promises the registration and the first snapshot.
* **runtime_logs_stuck.** The companion's in-flight flag survives a lost
  connection, and nothing but a `log.clear` resets it: no further diagnostics are
  sent. Resetting it on disconnect makes the property hold on the same instance.
* **prompt_fallback.** In event mode, when the watch cannot be set up, the server
  logs that it falls back to polling; the polling refuses to run because the mode
  is still "event". Nothing watches the prompts.

Other disagreements met on the way, certain from the text and not worth a run:

* The plugin stops the active game whatever id `project.stop` names
  (`godot_mcp.gd:390`), although `docs/TOOL_CONTRACT.md:288` calls it the target.
* Over stdio an `initialized` before `initialize` is dropped in silence:
  `handleMessage` makes the error and the loop sends no error without an id
  (`stdio/server.go:106`). `docs/TOOL_CONTRACT.md:104-111` promises
  `invalid_request` on both transports, and `docs/DEVELOPMENT.md:75` calls such a
  difference an acceptance failure. The test (`stdio/server_test.go:191-209`) calls
  `handleMessage`, so it sees the error a client never does. `RequestsAreAnswered`
  demands the rejection except where `RefusalIsDropped`, which is this case alone.
* HTTP accepts an initialize with protocol version 2025-06-18, but every later
  request must carry the header 2025-11-25 (`version.go:31-52`).
* After text that is not JSON, or an input that ends inside a message, the stdio
  loop answers "Parse error" for ever (`stdio/server.go:63-73`): the decoder
  keeps its error and never returns `io.EOF`. The model ends the session there.
* Plain rendering returns an oversized template as it is when there are no
  arguments (`helpers.go:529`); the limit holds for everything else.

### Bounds

* Broker: two commands are enough for one to interfere with another's entry; three
  acknowledgement calls give each command an answer and one of them a duplicate.
  The theorems below cover every number.
* Registry: three games, so that a transfer between two leaves a bystander; two
  editors and two transports for moves. One launch token suffices, since the
  registry only copies and compares them.
* Bridge: two requests at a time (every pair of run, stop and expiry overlaps),
  one editor, two games, two processes, two tokens. Each request and each process
  runs once; tokens are drawn once. Three requests or two editors are beyond a few
  minutes of TLC as a whole; parts with two editors were checked on the way (0.2
  and 1.3 million states), and the theorems cover every number.
* Freshness: time 0..4, a lag of one tick, windows of one tick with and without
  grace, so that fresh, grace and stale all occur for entries of different ages.
* Await: two calls on one session, one tick of timeout, frames 0 and 1, time 0..3;
  a call begins only when its deadline fits in the bound of the clock.
* Logs: seven entries, a buffer of three and a store of four (500 and 2000 in the
  code), so that both overflow; two MCP sessions, so that one connection is lost
  with a request in any stage and another is made. Entries are followed up to
  `MaxEntries`; later ones are not. The stuck run is smaller.
* Streams: two sessions, so that a sweep has a second stream to close under its
  lock; two streams, so that one replaces the other; one notification, which meets
  each of these. Three streams or two senders on one session were checked too, and
  the theorems cover every number for the safety properties.
* Prompts: two files, so that a scan can be torn and names can collide; one call of
  the reload tool besides the watcher; one client, explored with polling only,
  since notification does not depend on what detects a change; three stamps, the
  first and the third with the same metadata, so that a list can come back; two
  tries instead of three. The theorems cover every number.
* Dispatch: each scenario asks one question. The handshake has four requests
  from an empty table (initialize, initialized, a mutating tool, DELETE), three of
  them at once, and a second session id for an initialize without one; the open
  session has three requests and an expiry. Configuration, frames and prompts need
  one request each, for every value of what they depend on. Paging has pages of
  two, lists of 0, 3 and 5, and two reloads, while another client opens a session;
  stdio four messages and one reload. A client uses only ids that were issued, or one never issued.

Symmetry is used in the safety runs only. Deadlock is not checked where the
system may stop: once every call has returned, or the clock or the entries are
used up. The registry run checks it.

### Fairness

* Broker: each goroutine that can run does (weak fairness of `Dispatcher(c)` and
  `AckOffer(a)`), timers expire. No caller and no plugin is obliged to act.
* Await: time passes, timers that are due fire, a woken call takes the lock
  (`sync.Mutex` hands over to starving waiters). Pushes are not assumed.
* Logs: the flush and bootstrap timers tick, requests in flight are served and
  answered, and a client that keeps trying is connected in the end (strong
  fairness of `Connected`, since attempts may fail in between); nothing is assumed
  of stops, clears or captures. It is as kind to the code as the property allows,
  and the property is still violated.
* Streams: goroutines run, a write ends (`writeLocked` sets a deadline of two
  seconds, which the HTTP server's writer supports), and both kinds of lock reach
  their waiters in the end (strong fairness where the lock may be taken by others
  in between; Go's mutexes hand over to starving waiters). Clients need not leave,
  requests need not come and no sweep need run.
* Prompts: the goroutine that holds the reload lock runs; the watcher ticks, takes
  the lock and sends (strong fairness, since others take the lock in between).
  Nobody need edit, list, or call the reload tool. `SourceIsFollowed` excepts what
  the code does not follow: a fingerprint recorded after the retry limit, and
  changes between the initial load and the start of the event watch.
* Dispatch: each goroutine runs, and the client that reads pages asks for the next
  one; `WalksEnd` needs no more.

## Theorems

Proved with TLAPS for every value of the constants, from the named assumptions in
each module (`NoneAssumption`, `NoneIsNoId`, `FreshnessAssumption`,
`AwaitAssumption`, `RuntimeLogsAssumption`, `SessionStreamsAssumption`,
`FilesAssumption`, `CallersAssumption`, `LimitAssumption`, `ModesAssumption`,
`NamesAssumption`, `RegisteredAssumption`, `SizesAssumption`, `IdsAssumption`,
`ScenarioAssumption`, `RequestsAssumption`, `CatalogsAssumption`, `RootsAssumption`,
`WalksAssumption`): the empty value is no id, bounds are naturals, windows are
positive, the tables of tools do not overlap where they must not, requests and
scenarios are records of the right form, lists of prompts and roots are sequences.
`WalksAssumption` says what a scenario with a client that reads pages is: prompts are
enabled, and nobody changes or lets expire the session that client reads with. Other
requests, and reloads, it allows.

* **Broker.** `TableExact`, `OneTaker` and `AnswerIsGenuine` are not inductive: why
  a waiting call finds its answer depends on how far the acknowledgement has got.
  `BrokerInv` adds, per command (`CommandInv`), where its entry, channel and
  answer are for each place of its call: an entry excludes a taker, a taker that
  still offers excludes a buffered answer, a buffered answer is the taker's.
  `InvInductive` proves it, action by action; the three theorems follow.
  `BrokerKeepsContract` proves the refinement: the acknowledgement taken for a
  command is mapped to `Taken(c)`, which `BrokerInv` makes unique, so that
  `AckTake` is the contract's `Take`, returning is `Conclude` and every other step
  stutters. `MetricsBalanceHolds` needs that only finitely many calls are under way
  at a time (`UnderWay`), each step adding or removing one.
* **Registry.** `RegistryInv` (types, both indexes, no ghosts) is inductive; there
  is a lemma per method and one for the effect on a record of each of the helpers.
  `TransportIndexIsExact`, `EditorIndexIsSound`, `StoppedStaysUnreachable` and the
  types (`RegistryTypeOK`) follow.
* **Bridge.** `BridgeInv` joins `RegistryInv` with the types of everything around the
  registry and with `ClaimOK`: a command on the wire for a request is the very
  command the request sent, and the request still waits for it without an answer;
  so an answer of the plugin is always about the game the request runs or stops.
  `BridgeStepOK` shows, action by action, that handlers, expiry and plugin keep
  this and change the registry by its methods or not at all. That is a refinement
  (`BridgeUsesRegistry`), so `BridgeKeepsRegistry` and `BridgeStoppedUnreachable` need
  no proof per handler, and
  `TransportLossHasCause` looks only at the methods that take a transport away.
  `SuccessMakesActive` (a run nothing interfered with leaves its game the active one)
  rests on `SuccessInv`: a request that is alone is the only one under way; no launch
  token is used on two editors (`TokenInv`); a process that lives is of the launch in
  its editor's handshake file (`LiveInv`); and the answer the run got is what that
  file says (`Followed`). So the only registrations that can arrive during the run
  are of other games or of this launch. The attempt found what TLC's instance with one
  editor could not: `runtime.register` compares the token and binds in two lock
  sections, so a process of an earlier launch of the game, on another editor, can pass
  the check, be overtaken by the relaunch, and then move the game to its own editor
  under a run no other request overlaps. `alone` therefore excludes such late
  registrations. `LaunchStaysAccepted` is from the same invariant: whatever process
  plays for the editor of such a run carries the token its record has.
* **Snapshot stores.** `StoreInv` adds to the two properties that no entry is from
  the future; without it an update at an older time could be arbitrarily older
  than the entry it displaces as the latest. `LatestEntryIsNewest` holds for
  every lag.
* **Await.** `AwaitInv` adds to `NoMissedWakeup` that a call that runs without its
  timer is past its deadline (`LateIsDue`): when it finds nothing it ends instead of
  parking again, which would leave it parked with nothing to wake it.
  `AwaitImplementsStore` shows that waiting takes nothing from the stores' promises.
* **Logs.** The store alone is not inductive: what can break its order is a copy of
  an entry that may still be stored. `LogsInv` follows the copies. Those of a client
  that is connected stand in a line (in flight, then queued), in order and before
  what is buffered, as long as they may still be stored (`StoreInv`); a refused batch
  returns to the buffer while a later push of the same entries waits in the line,
  which is harmless since what made the server refuse the first makes it refuse the
  second. A handler whose client has gone is the only one that may store its entries
  (`OrphansInv`), and they count as cut off. For `ClearHolds`, what stands behind the
  acknowledgement in the line was captured after the companion cleared (`ClearInv`);
  the same holds while a handler without a client still has the acknowledgement to
  give (`AckBehind`), and each such handler has a session of its own
  (`SessionsApart`). `LogsIndInv` is all of these.
  `StoreIsInOrder` and `LogsTyped` follow for every capacity and number of
  connections.
* **Session streams.** A send never asks whether the handler of the stream still
  runs. `StreamsInv` says why it need not: a handler past its `SetTransport` is
  bound or its stream is closed (`HandlerInv`), a bound stream's handler has not
  returned (`BoundIsServed`), and whoever holds `mu` is still where it took it
  (`LockInv`). `NoWriteAfterReturnHolds`, `StreamLossHasCause` and the
  types (`StreamsTypeOK`) follow.
* **Prompts.** `RecordedIsServed` rests on stamps that never come back: a file that
  still has the stamp of the fingerprint before the load was read at that stamp
  (`LoadSees`), so that the scan after the load finds it only when it is served
  (`AfterSees`). `NoStaleClient` rests on the list taken before the load: a client
  that holds another one has a notification under way (`StaleBeforeIsTold`).
  `CatalogInv` joins these with the types and the place of the lock's holder.
* **Dispatch.** `DispatchInvariant` is `Consistent /\ Replies`. Unless a request
  stands between its own writes, the entry of a session is what its client was told
  (`Agreement`). No other change is in progress with a clean request
  (`CleanIsAlone`), so the entry it finds at each step is known (`CleanInStep`).
  `Replies` are the four properties of answers; each is shown when an answer is
  given, from these. `WalksAreComplete` rests on `WalkInv`: while nothing is reloaded,
  what a client has got is the list up to its cursor (`PagesGot`); it has one request
  at a time, for that cursor, which looks at the load errors only when it found no
  prompts (`Walkers`); and its session stays open (`SessionsKept`).
  `GovernanceHolds` needs that the loop over the roots ends with an innermost one
  (`BestRootIsInnermost`), an induction over the roots. The library's induction
  theorems take an operator and cannot be used, so it is shown by least
  counterexample: a set of naturals that is not empty has a least element
  (`LeastNumber`).

Every invariant and every action property of the passing runs is a theorem. Only
model-checked is what needs fairness: `EveryDispatchReturns`, `AwaitReturns`,
`AbandonedHandlerReturns`, `EverySendReturns`, `SourceIsFollowed` and `WalksEnd`.
Liveness and `ENABLED` are outside what the prover supports. What the folds of the
pure operators compute (`Rendered`) is taken as it is by the theorems.

## Not modelled, and what is left

* The plugin's HTTP client as a module of its own, shared by the editor and the
  companion: deferred reconnects (`runtime_mcp_server.gd:66`), cancelled callbacks,
  session deletion. `RuntimeLogs` has the part of it that log pushes depend on.
* The remaining companion commands (input, screenshot, node properties), which
  answer at once from the scene tree, and `log.get` with its sequence numbers.
* Runs of `RuntimeBridge` with two editors: beyond a few minutes of TLC. A leak on
  expiry (`session.go:316` forgets only the active game of the editor) needs them.
* The read cache of the file tools, keyed by path, size and modification time; the
  other file tools, configuration, logging, editor dialogs and snapshot collection
  are sequential conversions or pure I/O with nothing over time for a model to say.
* In `Dispatch`: bodies over the limit, the origin check, configuration that
  changes while the server runs, and paging over stdio, which has no concurrency
  that paging over HTTP does not have.
* In `RuntimeLogs`: statuses other than 200, 202 and 404. They answer malformed
  requests and internal errors, after them the client is disconnected with its queue
  kept (`runtime_mcp_server.gd:214-216`).
* In `SharedMethods`: control and `.`-tokens of templates, left to the template
  engine. In `Dispatch`: the error of `GetServerTools` (`router.go:323`), which needs
  a server without the entry it registers before it listens.
* What a registration that arrives after the cleanup of its session re-creates: the
  record it makes is consistent, and no document says that it must be refused.
* Proofs: that `RuntimeLogs` implements a specification of a log store in order, and
  what a `project.stop` without a push in between does leave behind (the `stop_race`
  run shows what it does not).
