# WebCortex in TLA+

WebCortex is a web framework whose core is a Rust server (`crates/webcortex-core`)
with Python handlers bridged in (`crates/webcortex-py`, `python/webcortex`). A
request is routed, authenticated, limited and dispatched to a handler, a query,
a proxy, a flow, a behaviour (a Python script of model calls) or an agent (a
model that calls the application's own routes as tools). This directory models
the parts where order, failure and shared state decide whether it is correct.

## Inventory

| component | state | operations | talks to |
|---|---|---|---|
| request path (`server.rs`, `middleware.rs`, `auth.rs`) | one request from its head to its answer | `handle`, `route_request`, `preflight`, `permits`, the limiter's two checks, timeouts | app, limiter, sockets |
| rate limiter (`middleware.rs`) | token buckets per key, in shards | `check`, eviction | request path |
| control plane and MCP (`server.rs`, `mcp.rs`) | none of its own | listings, halt, release, approvals, `tools/call` | app |
| connections and sockets (`server.rs`, `ws.rs`) | open connections and sockets, places under the ceiling, the shutdown flags | `serve_with_shutdown`, `accept`, `ingest_loop`, `stream_loop`, `agent_session`, `write_replies` | app, device hub, agent loop |
| dispatch and the request tree (`app.rs`, `flow.rs`, `behaviour.rs`, `auth.rs`) | principal, depth, budget and steps of each frame | `dispatch`, `execute`, `call_tool_inner`, `run_flow`, `run_agent`, `gather`, `ask_many`, `delegate_to_agent` | everything |
| agent loop (`agent.rs`) | `RunState`: conversation, actor, agent in control, steps, usage | `run`, `drive_steps`, `execute_calls`, `handoff`, `maybe_compact`, `suspend`, `resume_approval`, `finish` | provider, dispatch, sessions, budget, status, ledger |
| sessions (`agent/session.rs`) | saved conversations with revision and last touch, one turn lock per session | `lock_turn`, `load_with_revision`, `save`, `forget`, `bound` | agent loop |
| approvals (`app.rs`) | map of suspended runs | `suspend`, `pending_approvals`, `resolve_approval` | agent loop, control plane |
| request tree budget (`agent.rs`) | one saturating counter per request tree | `charge`, `exhausted` | agent loop, flow classifier, behaviours |
| model providers and registry (`agent/provider.rs`, `agent/registry.rs`, `agent/vision.rs`) | aliases and declared providers | resolving a name, the two wire formats, images shown, retries | agent loop, behaviours |
| emergency stop (`app.rs`, `bridge.rs`) | halted flag with reason | `halt`, `release`, the actuators' gate | dispatch, handlers |
| Python side (`webcortex-py`, `_bridge.py`) | thread pool, event loops, calls waiting to be answered | dispatch, run, complete | dispatch |
| device hub (`devices.rs`) | frames, history, telemetry, admission, the event channel | `push_frame`, `admit`, `store`, `current_frame`, `pull` | server, sockets, agents |
| watchers (`devices.rs`) | digest, runs of the last hour | `run_watcher_once` | device hub, agent loop |
| live status (`status.rs`) | runs in flight, tallies, failures | `run_started`, `run_progress`, `run_waiting`, `run_finished`, `run_cancelled` | agent loop, control plane |
| ledger and audit (`ledger.rs`, `audit.rs`) | tokens per agent and model | `charge`, `report` | agent loop, flows, behaviours |
| manifest and boot (`manifest.rs`, `app.rs`) | the declared application | `validate`, `App::build` | everything, once |
| router, templates, files, HTTP, errors, OpenAPI, type generation | tables built once at start | lookups and translations | request path |
| database (`db.rs`) | SQLite pool | parameterised query | dispatch |

### What makes each part correct

* *Request path*: what runs was asked for by somebody who may run it, whichever
  of the three ways it came; a wrong credential costs its address a token; what
  is recorded of an answer is what was sent, or is known not to be.
* *Rate limiter*: no window lets a key through more often than burst, refill and
  eviction allow; nobody is refused for what another key sent.
* *Request tree*: refusals come before effects, everybody's data has an owner,
  nothing outlives its caller, what was answered is charged, every tree ends.
* *Agent loop*: no conversation holds a tool call apart from its result; a gated
  call runs only when approved and once; authority never grows; every run ends.
* *Sessions*: no turn is lost, one turn at a time, every wait ends.
* *Approvals*: one decision, one continuation, with the history as it is then.
* *Budget*: no charge lost, no wrap, bounded overshoot.
* *Model providers*: every request is well formed in its provider's own terms,
  shows the newest images, and is not waited for without end.
* *Python pool and emergency stop*: nothing that was waiting moves while the stop
  is engaged or after its caller gave up; the pool never starves.
* *Device hub*: the rate over every window; ring and channel agree; a slow viewer
  is told of a gap; one fetch for all who ask together.
* *Connections and sockets*: no turn lost; the drain waits for what it told, and ends.
* *Status, ledger, watchers*: no run in flight for ever, each end counted once and
  under which agent, no token uncounted, the hourly ceiling over any hour.
* *Boot*: an application that serves never looks up a name in vain that its
  manifest wrote down.

### What is hard

* **Interleavings at every lock and every await.** Two requests on one session,
  parallel branches on one budget, two decisions on one approval, two checks on
  one bucket judged in the other order than they read the clock.
* **Futures are dropped.** A request that times out or whose client has gone
  drops its future at an await: nothing after it runs except destructors.
* **State read before an await and used after it**: the budget, the session's
  revision, the halted flag, the frame a watcher looks at.
* **Two-step protocols**: tool use and tool result, suspend and resume, check
  and charge, stored for approval and recorded as waiting.
* **Partial failure**: one branch of a flow, one prompt of a batch, one reply to
  a device that never reads.

## The modules

| module | models | builds on |
|---|---|---|
| `SessionBound` | `bound()`: which suffix of a conversation a save keeps | |
| `SessionTurns` | turn locks and their map, the session store, a run's dealings with its session, suspended runs and decisions on them | `SessionBound` |
| `TokenBudget` | what a request tree's budget promises: a counter with atomic admission and payment | |
| `SharedBudget` | the compare-and-swap loop, and the runs that check, call and charge | implements `TokenBudget` |
| `AgentRun` | an agent's loop, its saved session and parked runs: steps, compaction and its back-off, tool calls, gates, handoffs, suspension, resumption | `SessionBound` |
| `RequestTree` | one request's tree of invocations: dispatch's checks, flows, behaviours, agents as tools, delegation, steps and tokens | |
| `ModelWire` | a conversation as it is sent and read back: names, formats, ids, stop reasons, images, retries | |
| `LiveBooks` | runs as the status, the ledger and a watcher see them | |
| `WorkerPool` | dispatch with its depth ceiling and emergency stop, the bridge, the Python thread pool and event loops | |
| `FrameGate` | `Device::admit` alone: the cell-rate limiter on frames | |
| `DeviceHub` | a device: pushes, ring, broadcast channel, shared fetches, viewers | extends `FrameGate`, implements its specification |
| `RateLimiter` | `check`: the clock, the shard, refill, eviction | |
| `RequestPath` | requests under one limiter and one emergency stop, over HTTP, a socket or MCP | extends `RateLimiter`, implements its specification |
| `Serving` | the accept loop, connections, upgrades, the three kinds of socket, the drain | |
| `Boot` | `validate`, `App::build`, and everything that looks up a name afterwards | |
| `SessionTurnsProofs`, `AgentRunProofs`, `ModelWireProofs` | theorems about the module they are named after | that module |
| `SharedBudgetProofs` | theorems about the budget (`TokenBudget`, `SharedBudget`) and about `LiveBooks` | those modules, `Sums` |
| `RequestTreeProofs` | theorems about `RequestTree` and about `Boot`: what a tree may do, and that its names were declared | those modules, `Sums` |
| `RequestPathProofs` | theorems about `RateLimiter` and the path that extends it | those modules |
| `ServingProofs` | theorems about the server (`Serving`), what its requests run on (`WorkerPool`) and what its viewers watch (`FrameGate`, `DeviceHub`) | those modules |
| `Sums` | lemmas only: least elements, and what `SumFunction` of a finite function adds up to | |
| `MC*` | the same modules with what TLC needs: symmetry, views, small tables | |

An action is one stretch of code between two points where another task may
run: between awaits, or under one lock. A dropped future is an action of its own
(`Cancel`, `Abandon`, `Drop`, `PeerGone`, `Hangup`), enabled at every await that
the module models. Operators named `X_Y` are faulty variants of the definition
`X` that follows them: each is a plausible bug, and shows that some property
notices it. Variables and fields commented "history" exist for the properties
only. Each module has a `TypeOK`; where it is not among a run's properties it is
proved, or was checked beside them.

### How the state corresponds to the code

* `SessionTurns`: `store` is the map of `Entry`, `revisions` the store's
  counter, `lockOf` the map of turn locks; an `Arc`'s strong count is the number
  of tasks whose `arc` is that lock, plus the map. `lru` orders sessions by
  `touched`; `SessionExpires` lets time pass for one of them. A message is a
  record of the turn it belongs to and whether it starts one; a summary carries
  the turns it replaced. `approvals` is `App.approvals`.
* `AgentRun`: `st` is `RunState`; `phase` says where `drive_steps` stands,
  `calls`, `at` and `results` are `execute_calls`' batch. Scopes are sets with a
  wildcard.
* `SharedBudget`: `used` is the atomic; `pc`, `current` and `amount` a run's
  place in `saturating_fetch_add`; `due` the calls it may make before it checks
  again.
* `RequestTree`: `node` lists the invocations in the order they were made, each
  with its parent, depth, actor and where it stands; a batch is the set of
  children that one step waits for. `spent` is the budget's counter.
* `ModelWire`: `conv` is the conversation, a message being its role, its calls
  or results by id, whether it has words or other blocks, and where its images
  stand; `saved` is the session's copy, from the last run that ended, which is what
  remains of it when a run is dropped; `attempt` and `asleep` are
  `send_with_retries`' loop. The wire format is what the two `complete`s build
  from `conv`, and is not state.
* `LiveBooks`: `run` is what a run's guard and future hold, `parked` the app's
  approvals, `inFlight` and `tally` the `RunBook`, `lines` the ledger, `watch`
  the watcher's state. Of a run, `closing` counts how often it was stored for
  approval and is still to be recorded as waiting, since a fast decision may let
  it be stored again before that; `entry`, `def` and `as` are the agent it began
  as, the one that holds it, and the one the book last had it under.
* `WorkerPool`: `job` lists invocations in the order they were made, with
  parent, depth and the steps charged; `queue` is the pool's queue.
* `DeviceHub`: `ring` and `seq` are the device's, `chan` all events ever sent,
  of which the channel holds the newest `Capacity`; `ask` and `waiting` are
  callers of `current_frame` and the order they queue in for the fetch lock.
* `RateLimiter`: `held` and `bucket` are one shard's map, `check` the requests
  between reading the clock and having been judged. Tokens are counted in parts,
  of which a request costs `Cost` and a tick adds `Rate`, so that refill is exact.
* `RequestPath`: `req` is one request's task: at the limiter (twice: for a wrong
  credential, and for everybody), reading its body, or running. `headersLegal`
  says whether the configured security headers can be sent, which is settled at
  boot and checked by nobody.
* `Serving`: `conn` and `sock` are the tasks of connections and sockets,
  `slots` the semaphore, `gone` the halves of the drain's `join!` that have
  resolved. A device's socket has its queue of `replies` and its `writer`.
* `Boot`: `manifest` is the declared application, `at` what the code that runs
  now has looked up: from a request or a watcher through tools, handoffs, flows,
  scripts and contexts. A "call" is a tool named by a script whose behaviour
  declares no tools and may therefore call any.

## What each run checks

| run | instance | what it shows |
|---|---|---|
| `SessionTurnsSafety` (1.1M states) | 2 requests, 3 sessions (one reached by nested runs), 3 locks, a store of 1, 1 approval, 2 turns of up to 3 messages, 1 suspension, sessions of 3 messages | no save overwrites a saved turn (`HistoryKept`), a parked run has one continuation (`OneLifePerTurn`), `turn_start` is where its own messages begin, neither below nor above (`OwnTurnMovable`), one turn at a time although locks leave the map and are made again (`OneTurnAtATime`), every wait ends |
| `SharedBudgetSafety` (953k) | 3 runs, 2 calls each between checks, answers of 0 or 2, budget 3, word 6 | exact, saturating counter and bounded overshoot (`SpendBounded`); refinement of `TokenBudget` (`ImplementsBudget`) |
| `AgentRunSafety` (420k) | 2 runs of 2 steps on a session of 4 messages, a triage agent and a specialist that may also delete, 2 tools, one gated, 2 calls to an answer | gates and approvals (`GateHolds`, `RunsOnce`), calls and results together (`ToolPairsWhole`), authority along handoffs, suspensions and resumptions (`AuthorityShrinks`), every run ends or waits for a human (`RunEnds`) |
| `RequestTreeSafety` (11k) | 2 agents (one with a session), a behaviour, 4 flows that call each other and themselves, depth 3, budget 2, 2 callers | `OwnDataHasOwner`, `NothingOutlives`, `StepsPaid`, `PaidInFull`, `TreeEnds` |
| `ModelWireSafety` (249k) | 2 turns of 2 steps, models of both formats, aliases that lead in a circle, questions without words, answers of other blocks alone, ids missing or the same, 2 images of which 1 is kept, runs dropped over a wait, 3 messages before a completion | `WireAccepted`, `NewestImages`, `PatienceBounded` |
| `LiveBooksSafety` (6.2M) | 2 runs of 2 agents, started or resumed twice, a book with 1 place, a ledger with 1 line of its own, a watcher of one run an hour that asks at every tick if it likes | `NothingStays`, `TalliedOnce`, `SpendKept`, `HourlyCeiling` |
| `WorkerPoolSafety` (204k) | 3 invocations, 2 threads, depth 2, width 2, 2 requests | a stopped or abandoned actuator never starts (`StopHolds`, `NoLateMove`); everything ends while behaviours leave a thread free (`EndsUnlessFull`) |
| `DeviceHubSafety` (2.8M) | 2 pushers, 2 askers, 1 viewer, 3 events, ring 2, channel 1, clock 0..3 | `RateHeld` in every window, ring and channel agree (`FramesInOrder`), no silent gap, one fetch for those who ask together (`FetchShared`) |
| `ServingSafety` (416k) | 2 connections, ceiling 3, queue 1, 1 reply, 3 turns | no turn lost (`TurnsKept`); the drain waits for what it told (`DrainWaits`) and ends by itself (`EveryDrainEnds`) |
| `RateLimiterSafety` (882k) | 2 keys, 2 checks, burst 1, cost 3 and rate 1 a tick, clock 0..4, idle after 2, which is before a bucket is full again | `RateHeld` over every window, at a burst per eviction age; nobody is refused for what another sent (`RefusedForOwn`) |
| `RequestPathSafety` (409k) | 2 requests at a time of 21 shapes, configured headers that can or cannot be sent, 4 routes, one known caller, one token between refills | `GuessesPaid`, `PermittedOnly`, `RecordedAsSent` |
| `BootSafety` (17k) | 8160 manifests, right and wrong in different ways, some with scripts that declare no tools and say one of 3 names | nothing that runs looks up a name in vain, unless such a script made it up (`NothingDangles`) |

### Why these bounds are enough to be interesting

Each bound is the least at which the case it is about happens. Three sessions
for two requests and a store of one force an eviction between load and save, and
make the lock map drop an entry while another is held; three messages per
session make `bound()` cut while a run is parked; one suspension lets another
turn come between suspension and decision. A word of twice the budget lets the
counter saturate after it is exhausted. Two calls to an answer, the first of
them gated, leave one call unanswered at a suspension. A tree three deep reaches
the ceiling through each kind of nesting, and the budget of two runs out inside
a batch. One place in the book leaves the second run out of it; one line in the
ledger sends the second model to the overflow line. A channel of one event makes
the viewer lag; a ring of two holds more than the newest frame. A ceiling of
three lets both connections become sockets, yet lets an upgrade find no place
while the other is under way. A cost that the rate does not divide makes refills
that fall between two requests' worth. The bounds on histories (`MaxTurns`,
`MaxOwn`, `MaxSent`, `MaxEvents`, `MaxJobs`, `MaxNodes`, `MaxStints`, `MaxTime`) are guards of
the actions that start something new, so that a run that reaches them finishes
what is under way; that is also why the runs do not check for deadlock: a server
with no more requests stands still.

### Fairness

Only weak fairness, and only of the code's own steps: a task whose await can
return is polled again (tokio), a fair queue hands its lock on (tokio's mutex is
FIFO), a provider's client and every request have timeouts, and so a started
call answers or fails. In `WorkerPool` a handler or behaviour that stops calling
tools returns. In `Serving` a head, a request, a turn and what a socket sends
all have their timeouts; of clients it is assumed that they read the answer to
their request. Nothing is assumed of humans who decide on approvals, of the
drain's own timeout, or of a behaviour choosing to make fewer calls.

## What is proved

For every value of the constants, from the assumptions stated beside them:

* **`SessionTurnsProofs`**: `TypeCorrect`, `MutualExclusion`,
  `NothingOverwritten`, `ContinuedOnce`, `RebaseMovesAll`. The inductive
  invariant is `LockInv /\ Versioned /\ HistoryKept`. `HistoryKept` alone is not
  inductive: that a resumed run need not rebase when the revision is the one it
  saw requires `Versioned` (a suspended run that has seen the entry's revision
  carries what the entry carries, and revisions are never reused), and that
  nobody saves in between requires `LockInv` (who refers to, holds and waits for
  which lock, and that the map's lock is the one its holder has). `OneLife` says
  of turns, one by one, what `OneLifePerTurn` counts, and that the next turn is
  nobody's yet. `OwnTurnMovable` needs, beside that, `Unmixed`: no saved
  conversation and no other run carries a turn that is still under way, so that
  what a run is begun from or rebased onto has none of its own words.
* **`AgentRunProofs`**: `TypeCorrect`, `GateSafety`, `OnceSafety`,
  `PairsSafety`, `CallerBounds`, `AuthorityNeverGrows`. One inductive invariant,
  `IInv`, carries them all. That a gated tool ran only when approved, and no
  call ran twice, is about one set of identifiers shared by the run in control
  and every parked one, so it needs `Orderly` of each of them (calls are named
  after the turn and step that asked for them, and nothing at or after the
  position reached has been decided) and `Apart` (no two runs share a turn).
  `ToolPairsWhole` says nothing of a run among its calls, whose last answer
  still lacks its results; `Conversations` does: the one open answer is the last
  message and asks for exactly these calls, and a run's own part opens with a
  message that a cut may stand before, which is why compaction and a rebase keep
  pairs whole.
* **`RequestTreeProofs`**: about `RequestTree`, `TypeCorrect`, `PaidSafety`,
  `OwnerSafety`, `OutliveSafety`, `StepsSafety`, `DepthBounded` and
  `AuthoritySafety`. The tree is a sequence of frames, and its invariant relates
  each frame to its parent, which comes before it (`Below`, `Owned`, `Ceiling`,
  `Held`), so that a step need only be looked at where it adds or changes a
  frame. `PaidSafety` follows each step's tokens from what came back to what a
  frame owes and on to what is charged, in a sum over all frames. About `Boot`,
  `NamesResolve`: while the application serves, its manifest is valid, and
  whatever has been looked up so far is something validation has seen, however
  long the chain that led there, or a name that a script without declared tools
  just said.
* **`SharedBudgetProofs`**: about the budget, `BudgetHolds` (of the atomic one:
  the counter's exactness is inductive; the overshoot needs `Committed`, what is
  spent plus what the open calls may still cost stays below the budget plus what
  all slots cost), `TypeCorrect`, `Refinement` (each step of the loop is a step
  of the atomic budget or a stutter: the swap is the payment, since it succeeds
  only on the value the sum was computed from; the refinement counts the calls
  outstanding, so `Owing`, a run in a call owes it, is needed), and
  `BudgetSafety`, which then follows from `BudgetHolds`. About `LiveBooks`,
  `BookEmpties`, `EndsCounted`, `SpendReported` and `CeilingHolds`:
  `NothingStays` needs that a run that has not begun is not about to end; the
  three counts need what one step adds to each of the sums they compare, and
  `EndsCounted` besides that which agent the book has a run under is the one the
  run was begun or resumed as (`BooksHeld`), for a run that never went without
  a place;
  `HourlyCeiling` is about every hour, and needs that what the watcher has
  forgotten of its asks is older than the hour it looks back on.
* **`ModelWireProofs`**: `WireWellFormed`, `WireNewest`, `WirePatience`, from
  `WireInv` (`WireTypes`, `Slept`, `Answered`, `Shown`). The properties are
  about what is sent, a translation of the conversation made on the spot; the
  invariant is about the conversation itself. `Answered`: every message answers
  the calls of the one before it, and the last one waits just while tools run.
  `Shown`: the images in the conversation are a run of consecutive ones up to
  the newest, and just those kept when it is sent. `Slept`: what was slept is at
  most the longest wait for each attempt made. The rest is what `to_wire` does
  with such a conversation: the ids it hands on are distinct and still pair, and
  in the OpenAI format, where one message becomes several, where each of them
  came from. `FlattenSeq` is a recursive function; its equation follows from the
  existence of such a function, and facts about all of its values by taking a
  least counterexample (`Reaches`). `WireNewest` is about conversations from
  which neither compaction nor a session's bound or expiry has taken images.
  `WireAssumption` asks of the constants that each back-off is within `Longest`,
  and that the ids the code makes up are none of those servers write.
* **`ServingProofs`**: about `WorkerPool`, `StopIsKept` and `GivenUpIsKept`.
  `StopHolds` needs that what the stop caught is still queued or refused, and
  that the stop is still engaged (`Caught`); `NoLateMove` needs that what was
  given up stays given up. About `FrameGate` and `DeviceHub`, `RateIsHeld` for
  the gate alone: over windows of any length the rate is a statement about two
  accepted frames, and `DueAfter` says how far each has pushed the next due
  time. `ImplementsGate` and `HubHoldsRate` carry it to the hub. `InOrder`,
  `NoGap` and `OneFetch` rest on `HubInv`: what the channel and the ring hold
  relative to `seq`, who holds and waits for the fetch lock since when, and how
  far each viewer has read. About `Serving`, `DrainWaited` needs that a half of
  the join that has resolved stays true: a connection begins only while the
  server accepts, and a socket that was open when the sockets were told does not
  open again, which a connection that is switching could make it do (`Waited`).
  `NoTurnLost` holds each socket to `Kept`: what is answered, under way and
  queued is in order, and together with what was refused is all that was sent; a
  socket that waits has nothing queued.
* **`RequestPathProofs`**: `LimiterRate`, about `RateLimiter`: since any
  reading, what a key was let through plus what its bucket holds is at most the
  burst and what the time the shard has counted brings. Nothing is assumed of
  the eviction age: an evicted bucket comes back full, so what a tick brings is
  the larger of the refill and a burst spread over the age (`PerIdle`).
  `RateAsConfigured` is the limit as one reads it in the manifest, burst and
  refill, for an age in which a bucket fills up. `PathIsLimiter` and
  `PathHoldsRate` carry the rate to the request path; `OnlyPermitted`,
  `EveryGuessPaid` and `RecordsTrue` need that a request past its head was let
  in across origins and is judged under the key of who sent it. `RecordsTrue`
  says when the record is wrong, too: with a configured header that cannot be
  sent. `RefusalsOwn` and `PathRefusesOwn` need `OwnOnly`: a bucket that is not
  full is short by what its own key took since some request of its own, which is
  the window the refused caller can be shown.
* **`Sums`**: the fold behind `SumFunction` takes elements in an order nobody
  knows. A sum is proved to be the number of its units, pairs of an element and
  one of the units it counts, so that what one step changes of a sum is a fact
  about cardinalities.

## What is only model-checked

Every invariant and every action property of every run is stated by a theorem.
Liveness under fairness (`EveryWaitEnds`, `RunEnds`, `EndsUnlessFull`,
`EveryDrainEnds`, `TreeEnds`) is out of the prover's reach and stays with TLC, on the
instances above.

## Where code and documentation disagree, or surprise

Met while modelling. The models follow the code.

* A nested run takes no turn lock, so two nested runs on one session lose one of
  their turns (`agent.rs:423`; `CHANGELOG.md:55`). `HistoryKept` leaves out the
  sessions nested runs use.
* The budget is checked before a compaction is charged and not again before the
  call that follows (`agent.rs:614`), where `docs/models.md:135` says before each
  call. `SpendBounded` counts the extra call.
* Behaviours hold threads of the pool that the handlers they call must run on
  (`_bridge.py:138`); nested as deep as the ceiling allows they fill it, where
  `docs/faq.md:98` promises a 508. `EndsUnlessFull` asks for a free thread.
* A socket made after `close_sockets` has found none is not waited for
  (`app.rs:241`; `CHANGELOG.md:53`). `DrainWaits` is about the sockets that were told.
* A flow runs a gated route without a human (`flow.rs:180`; `docs/faq.md:84`).
* A suspended run is stored for approval before it is recorded as waiting
  (`agent.rs:1169`, `status.rs:378`; `docs/diagnostics.md:134`): a fast decision
  finds it still in flight.
* A resumed run is registered under the agent it was handed to (`agent.rs:541`),
  so that one which is then dropped is tallied under another agent than it began
  as (`status.rs:185`); a run that waited is counted once for waiting and once
  for ending.
* A run's progress is recorded before its charge (`agent.rs:1082`): a snapshot can
  be one charge ahead of the ledger.
* A route flow whose chosen step exhausts the budget reports itself completed
  (`flow.rs:144`).
* A watcher's digest and its place in the hour are used up when its agent cannot
  run (`devices.rs:577`).
* Telemetry is stored under a lock and sent after it (`devices.rs:271`), and a
  frame stored while a viewer joins is shown to it twice (`ws.rs:346`).
* An MCP request on a pinned connection has no timeout of its own
  (`server.rs:693`; `manifest.rs:671`).
* `validate` does not refuse a tool that one agent lists twice, nor, outside the
  Python package, a context that queries without a database or a behaviour route
  without its behaviour.
* Nothing validates that a bucket fills up within the eviction age. Where it does
  not, a bucket that is swept comes back fuller than its refill, and a caller who
  keeps still for just that long has a burst each time (`middleware.rs:93`;
  `manifest.rs:1187` asks only that the rate be positive). `RateHeld` allows it, and
  `RateAsConfigured` says where it cannot happen.
* Configured security headers are not validated, and are added after the answer
  was found fit to send (`server.rs:500`, though the comment at 483 has it that
  what is logged is what is sent): one that cannot be sent makes every answer
  without a header of that name a bare 500, logged and counted as what it was to be.
* An empty prompt, or an empty text beside images, is sent and saved
  (`agent.rs:439`, `app.rs:934`), although an answer with nothing in it is not
  kept. `WireAccepted` exempts the caller's own question.
* An answer of neither text nor calls but of other blocks is kept
  (`provider.rs:411`), and resent to another provider as an assistant message
  without content (`provider.rs:599`).
* A finite `retry-after` that no `Duration` holds panics and takes the run with it
  (`provider.rs:159`); the wait is capped only after the conversion.
* A summary made while a run's own part is being compacted may take in both the
  history's end and the run's beginning; after a rebase the gist of that history
  is in the session twice (`agent.rs:1004`, `agent.rs:1231`). `OwnTurnMovable`
  allows for the summary, and for nothing else.
* A dropped run that was answered before its suspension was recorded, or that had
  no place in the book, is not counted at all (`status.rs:425`).
* A behaviour that declares no tools may call any (`behaviour.rs:243`), and a name
  that is none fails when it is called (`app.rs:1167`), which nothing can find out
  at boot.

## What is left out

* **Texts, images, usage, prices, events, logs**: abstracted to what the
  properties read (whether an answer ends or asks for calls, what it costs, in
  which place an image stands).
* **Time** is an integer in `FrameGate`, `RateLimiter` and `LiveBooks`, and elsewhere
  nondeterminism: an expiry or a timeout may come whenever it could.
* **Clients, SQLite, the file system, Python handlers** are environments.
* **Parsing, translation, code generation, lookups in tables built at start**
  (`router`'s patterns, `http`, `openapi`, `typegen`, `templates`, `files`, the
  Python declarations, the command line): no state and no order in which they
  could go wrong.
* **How keys and tokens are verified**: cryptography and data; a credential is
  right or wrong.
* **HTTP/2 multiplexing, TLS, the bytes of a WebSocket**: libraries.
* **The recent runs and errors the status keeps, request counters and
  histograms**: rings and sums that nothing reads back.
* **A behaviour's own token budget beside its tree's**, and its contexts' texts.

## Plan

Done: every component in the table above that keeps state, except the rings of
the status; and every safety property that is checked is proved. What is left:

1. What the liveness properties rest on and the prover can reach: that in
   `WorkerPool` and `Serving` a state in which nobody waits for anybody is the only
   one without a step, and the measures that each step of `AgentRun` and
   `RequestTree` decreases.
2. Shorter proofs: the lemmas on sequences that `SessionTurnsProofs`,
   `AgentRunProofs` and `ModelWireProofs` each state belong in one module.
3. An abstract log of turns that `SessionTurns` implements.
