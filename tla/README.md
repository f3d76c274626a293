# A verification of libdatadog in TLA+

libdatadog is the native code that Datadog's tracers share: a data pipeline for
traces and their statistics, a telemetry client, remote configuration, a sidecar
process that does this work for short-lived clients such as PHP, profiles, and a
crash tracker. This directory holds TLA+ models of the parts in which several
actors meet (threads, tasks, processes, an unreliable agent), the TLC
configurations that check them on small instances, and TLAPS proofs for every
instance. `PROJECT.json` is the index: every definition with the source lines it
models, every run, theorem, finding and hazard.

    tlc -workers 2 -config Ipc.cfg MCIpc      # a run
    tlapm OneWayShmProofs.tla                 # a proof

## 1. The system

| part | state | operations | what is hard about it |
|---|---|---|---|
| remote-config fetchers (`remote-config/src/fetch`) | stored files with reference counts, parked files, run ids; targets, runtimes, fetcher tasks | fetch, expire, add and delete runtime, shut down | requests of several clients overlap; a file may not vanish while a request has advertised it; locks nest |
| telemetry worker (`ddtelemetry/src/worker`) | mailbox, deadlines, bounded stores, logs | lifecycle actions, flushes, stop | requests fail or are cancelled half way; deadlines and mailbox compete |
| data pipeline (`data-pipeline/src`) | time buckets; stats status, exporter tasks | add span, flush; send, check agent info, shut down | late spans, clocks set back; a status read twice; final flush |
| RPC (`ipc/tarpc`, `ipc/src`) | in-flight maps, bounded queues, deadlines | call, cancel, dispatch, handle, respond | cancellation overtakes requests; full queues drop them; either end dies |
| sidecar service (`sidecar/src/service`) | sessions, runtimes, held-back telemetry, trace buffer, agent infos | one handler per request, tasks they spawn, disconnects | several locks per operation; spawned tasks run after their session has gone |
| shared memory (`sidecar/src/one_way_shared_memory.rs`, `shm_remote_config.rs`, `ipc/src/rate_limiter.rs`, `ddcommon/src/rate_limiter.rs`) | regions with a generation, lists of files, limiter slots | write, read, fetch_update, alloc, free, inc | processes that share words and no lock |
| crash tracker, profiles, DogStatsD, trace utilities, live debugger, mini agent, allocators | | | planned, section 8 |
| C interfaces, parsers, generated code, build tools | | | wrappers and pure functions, not modelled |

They interact as follows. A tracer talks to the sidecar over one connection
(BlockingClient, RpcWire, RpcServer). The requests of a connection pass its
interceptor, which counts sessions (SidecarSessions), and go to handlers which
store traces (TraceFlusher), enqueue telemetry (TelemetryApps, whose workers are
TelemetryWorkers with TelemetryStores), ask for the agent's information
(AgentInfo), or subscribe to remote configuration (MultiTarget, whose fetchers
are SharedFetchers). Fetched files and lists are published in shared memory
(OneWayShm) and followed by the tracer (RemoteConfigManager). Tracer and sidecar
count hits in shared slots (ShmLimiter) with a RateLimiter in each. A tracer that
does without a sidecar uses a TraceExporter, which owns a SpanConcentrator.

## 2. Modules

Every variable is commented with the field it stands for, and every action names
the handler it models. A comment "Mutant" marks a deliberately wrong variant of
the definition after it; none is part of a specification.

**Remote configuration**

- `FileRegistry`: the abstract specification, from the doc comment of
  SharedFetcher: a file is not recreated while it exists, does not leak, and does
  not expire in use.
- `SharedFetcher`: `SharedFetcher::run` and `fetch_once`, one action per poll
  between two awaits. The backend is external and answers anything its protocol
  allows; `Faults` adds answers with missing or broken contents, `Abandons` lets
  the future be dropped.
- `SharedFetcherThreads`: the same polls split at each lock and at the atomic
  operations on counts and run ids. Merged into one step are what a thread does
  under the files lock to apply an answer, the two stores of a file that is taken
  back (who reads between them waits for the lock the thread holds), and the last
  store of `expire_file` with its unlock.
- `MultiTarget`: `MultiTargetFetcher` with its callers in the sidecar, the
  fetcher tasks, the semaphore, the deferred insertion, and four locks.
  `TestToken` is the session token of a test agent, with which dropping a runtime
  stops its fetcher at once.
- `RemoteConfigManager`: the sidecar's `ConfigFileStorage` and the
  `RemoteConfigManager` of a tracer. A call of fetch_update is one action; the
  sidecar moves between calls. A read that races a write yields the new list or
  nothing, which is what OneWayShm shows.

**Telemetry and data pipeline**

- `TelemetryStore`: the bounded `Store` with its flush queue; indices as the code
  computes them, from the number of evicted items.
- `TelemetryWorker`: the event loop and two Stores, with the dispatcher of `run`
  or, if `MetricsLogs`, of `run_metrics_logs`. Cancellation is looked at where
  the loop does, and it ends requests. `Threaded` tells a worker with a thread of
  its own, which announces its end, from one spawned as a task, which does not.
- `SpanConcentrator`: buckets, aggregation keys and the oldest timestamp.
- `TraceExporter`: `send` with its loads and stores of the status one by one, the
  exporter's task, and `shutdown` without a timeout, which waits for the exporter
  the status names and leaves others behind.

**RPC**

- `RpcWire`: the two directions of a connection, which may break or end in an
  error (`torn`: part of a frame, or a reset), and deadlines.
- `RpcClient`: `Channel::call`, the guard whose drop cancels, and each branch of
  the dispatch task.
- `RpcServer`: `BaseChannel`, `Requests`, the handlers and both executors
  (`Sequential`). A handler completes, is aborted at an await, or panics, which
  takes the sequential executor's worker and its queue with it.
- `Rpc` composes client and server over the wire; `BlockingClient` composes the
  sidecar's blocking client with the same server.
- `ChannelLimit`: `MaxChannelsPerKey`.

**Sidecar**

- `TraceFlusher`: the buffer of traces, its flusher task with sleep, flush request
  and send, and `flush` and `join`, after which handlers may go on storing.
- `SidecarSessions`: connections with their interceptor and worker, the counters
  of sessions, and what stops a session. A handler that has begun is not
  interrupted by the end of its connection (`Take`, `Handle`).
- `TelemetryApps`: the queues of one runtime, registrations, the app instance of a
  service with its map of metrics, and the tasks of late items. The Store of a
  queue gives up its oldest item (`StoreLen`); the lookup of a metric panics if it
  is not registered, and poisons the map.
- `AgentInfo`: `AgentInfos` with its entries, guards and fetcher tasks.

**Shared memory**

- `OneWayShm`: writer and reader word by word, in a file which either resizes to
  what its own mapping lacks, so that it may also get shorter: zeros appear in
  what was cut, and an access beyond the end kills the process. The sidecar may
  die at any step (`died`: inside a write) and its successor opens the region as
  it is. Memory is sequentially consistent: the fences of the code are taken to do
  what they are there for.
- `ShmLimiter`: the lock-free list of free slots and the counts of references,
  one action per atomic operation, in a fresh region of one page.
- `RateLimiter`: `LocalLimiter`, one action per atomic operation, each call with a
  limit of its own.

**Model checking.** `MCFetchers`, `MCTargets`, `MCDataPipeline`, `MCLive`,
`MCIpc`, `MCSidecar` and `MCShared` instantiate these modules. Components that do
not interact are explored side by side: a variable `part` (or `world`) chosen in
the initial state says which one moves, so a run is the union of the state
spaces, and every property is stated for the part it is about.

**Proofs.** `TelemetryStoreProofs`, `SpanConcentratorProofs`, `OneWayShmProofs`,
`RemoteConfigManagerProofs`.

## 3. Runs that pass

| run | what holds |
|---|---|
| `fetchers` | `AdvertisedStored`: what a request in flight advertised stays stored, also with faults, dropped clients and two threads. `FilesSound`: held files are stored, counts are exact, nothing leaks: the first while polls do not overlap, the second also with faulty answers but not with dropped clients, the third only when all goes well. `PromiseKept`: SharedFetcher implements FileRegistry. |
| `targets` | On one thread, without a test token, no assertion fails (`SafeAlone`), reference counts and notification lists are exact (`TargetsSound`). On two, a target has one fetcher (`ExclusiveFetcher`) and only fetched targets are published (`PublishedFetched`). |
| `pipeline` | `RetiredClosed`: a bucket that was handed over is not opened again. `HitsConserved`: a span is counted in one bucket until it is flushed. `StatsKept`: with one sending thread, stats the agent was told of are kept until they are sent, up to a shutdown that leaves an exporter behind, and only the exporter of the status goes on. `WorkerForgets`, `LogsReportedOnce`, `FlushQueueIsSuffix`: the worker under failing and cancelled requests, the second in both flavours. |
| `live` | What must happen does. `ShutdownReturns`: after the final flush of the exporter it stops. `StopAnnounced`: a queued Stop ends a worker on its own thread; `MailboxNotStarved`: no deadline that nobody reschedules stands before the mailbox. `FlusherDelivers`: payloads are sent, flush and join return. `LateItemsEnd`, unless the registration gave up. `ReadsLastWrite`. |
| `ipc` | `TrackedHasOwner`: whatever the server tracks somebody will untrack. `DroppedIsCancelled`: a dropped call is withdrawn or cancelled. `ResponseIsServed`, `ConnectionSound`: answers are of finished handlers, once. `ChannelsSound`: the map of channels does not leak. `CallsEnd`, `ConnectionEnds`. With breaking connections and panicking handlers. Deadlock is checked. |
| `sidecar` | `OneFlusher`, `FlusherSound`: one task, a bounded buffer; a flush request that reaches the task covers what the buffer held, and a join what it found. `SessionsSound`: exact counters, no session outlives its users, those made by late tasks and handlers apart. `HeldGoFirst`, `TelemetrySound`: order, one worker, and no loss as long as no point overtakes the registration of its metric. `AgentInfoSound`. `EffectsInOrder`, `OwnResponse`, `SendsCarriedOut`: what a blocking client may rely on. |
| `shared` | `ReadsWholeWrites`: one finished write, zero at most where a resize cut it, until a writer dies inside a write. `NoTwoApplied` and `NoneMeansApplied`: the configuration a tracer has applied. `SlotsSound`: slots of a fresh region are counted exactly and are in one place each. `RateHolds`: the limit from the limiter's start, and no credit from a pause. |

### Bounds

The constants of the `.cfg` files are small sets. They are chosen for the cases,
not for the size:

- Two clients, two paths with two contents and up to seven requests: both clients
  overlap in either order, a file expires, is parked, revived and replaced.
- Two runtimes and two targets with three fetchers: a target is removed and comes
  back while a fetcher waits for its permit; the threaded world has one target and
  two callers, enough for every pair of locks.
- Time in the concentrator runs over four buckets of three units, with three
  spans: late spans, clamped spans, and a clock set back over a boundary.
- A worker gets four messages, a store alone six insertions with capacity two:
  evictions meet a flush whose request fails.
- Two calls with one request in flight and all queues of length one: every queue
  is full at some time. The blocking client makes three calls: one timed out, one
  that meets its late response, one more.
- Three payloads, one of them twice as large, with a limit of one and a drop limit
  of three, and two waiters (two payloads and one waiter in `live`). Two
  connections share one session with two requests each of `config`, `rc`, `stop`
  and `late` (other handlers that use the session are like `rc` without its
  assertion). Two queues register one service twice, with three items and Stores
  of length one: an eviction, a late metric and its point. Three guards and three
  fetcher tasks share an endpoint.
- A region of three pages of one word (two in `live`), two writes and a restart: a
  write that grows the file, one that does not, and a reader with an old length.
  Two targets with two files, one of which gets a second version. Three limiter
  slots with two allocators and a tracer. Two threads, seven calls with limits of
  one and two, and two ticks of the limiter's clock, which make up one interval.

CHECK_DEADLOCK is FALSE where the bound on messages, or a client's exit, lets
the system stop. In `ipc` it is checked: the modules have an explicit step for
the rest after the end.

### Fairness

Weak fairness only, and only for steps the code's scheduler takes: a task whose
future is ready is polled again (tokio), a timer that is due fires, a request to
the agent ends (the HTTP client has timeouts), a writer that has begun a write
goes on. There is none for what users do (calls, sends, drops), nor for crashes
or a broken connection. StopAnnounced and MailboxNotStarved assume that nobody sends
ExtendedHeartbeat before Start, StopAnnounced also that the worker has a thread
of its own: section 5.

## 4. Proofs

- `TelemetryStoreProofs!FlushQueueSuffix`: for every capacity and set of items,
  the flush queue is the newest run of stored indices, so `unflushed()` never
  meets an evicted index. Invariant `StoreInv`: the map does not outgrow its
  capacity, which is what aligns an eviction with the head of the queue.
- `SpanConcentratorProofs!NoBucketTooOld`: for every bucket size and any clock,
  buckets are aligned and not older than `oldest_timestamp`. `AllowedInv` adds
  that the clock stays past the first buckets after 1970, so that no subtraction
  goes below zero; the arithmetic of alignment is in lemmas of its own.
- `SpanConcentratorProofs!HandedOverStaysClosed`: with a clock that is not set
  back, `RetiredClosed`. `RetiredInv` adds that what was handed over began at
  least `buffer_len` buckets ago, in terms of the present.
- `OneWayShmProofs!ReadersSeeWholeWrites`: for every region and page size, and any
  interleaving of words, resizes and restarts, `ReadsWholeWrites`: what a reader
  keeps is one finished write, with zeros at most where a resize cut it, and not
  cut at all if writes fit into a page; until a writer has died inside a write.
  `ShmInv` ties the generation to the writer's step (`RegionInv`), says of a
  reader whose generation still stands that it reads under a quiet writer, so
  that all it has copied is of the last write (`CopyInv`), and that nobody resizes
  a file whose writes fit into a page (`PageInv`).
- `RemoteConfigManagerProofs!NeverTwoApplied`: for any targets, paths and
  versions, and also when files are unloaded half way through an update,
  `NoTwoApplied`. The property is not inductive: two versions of a path can be
  listed at once, in the list being read and in what is still applied. `RcmInv`
  says that of two such versions the older is not applied, or is still to be
  checked, and that it will not be applied again because its file is gone.

The proofs assume what the modules assume of their constants (named ASSUMEs,
which TLC evaluates in the runs). Only model-checked: everything else in section
3, all liveness, and the refinement of FileRegistry.

## 5. Where code and documentation disagree

Five runs are expected to end in a violation; each checks what a comment or an
assertion of the code says.

- `targets_panic`: a runtime that joins a target under removal and leaves before
  the deferred insertion ran meets an `unwrap` of None (`multitarget.rs:170`) or a
  subtraction from zero (`205`).
- `targets_deadlock`: `services`, `runtimes`, `target_runtimes` and the map of
  fetchers are nested in different orders. The comment quoted takes care of one
  other pair of locks.
- `agent_info`: a query between the test that ends a fetcher (`agent_info.rs:104`)
  and the removal of its entry (`147`) gets a guard whose fetcher is gone.
- `sessions`: a session is removed just after another connection configured it
  (`sidecar_server.rs:199`), and `expect("... set early")` fails (`943`).
- `rcm_unload`: `unload_configs` with removals pending re-applies a file that the
  target no longer lists (`shm_remote_config.rs:571`).

The models also reach the following, which the passing runs exclude by the
constant named, or do not claim:

- Two threads: a file expires between the test of its run id and the increment of
  its count (`shared.rs:311`), though `shared.rs:26` excludes "intermittently
  expired files". FilesSound claims it for polls that do not overlap.
- One thread with a test token: dropping a runtime stops a fetcher that
  add_runtime then takes for alive (`TestToken`, FALSE for SafeAlone and
  TargetsSound). On two threads `target_runtimes` can be left wrong by updates
  that overtake each other (`multitarget.rs:214`).
- A telemetry worker that is neither started nor restartable serves an overdue
  FlushData again and again and does not read Stop (`worker/mod.rs:191`;
  `EarlyHeartbeat`). A worker spawned as a task never calls shutdown_finished, so
  that the documented `wait_for_shutdown` (`worker/mod.rs:738`) does not return
  (`Threaded`).
- The Stop of a worker for metrics and logs leaves the logs it reported in the
  queue (`worker/mod.rs:292`): a restarted one would report them again.
- Two sending threads: stats are disabled between the two loads of the status,
  and chunks are dropped uncounted (`trace_exporter/mod.rs:572`), or both start an
  exporter; the runs have one `Sender`. With one, shutdown does not wait for an
  exporter that the agent turned off earlier, and what it has not sent is lost
  (`trace_exporter/mod.rs:284`; StatsKept excepts it).
- A first payload above the drop limit leaves the trace buffer's size there, with
  no task that would reset it (`trace_flusher.rs:123`; `SizeOf`).
- `flush()` returns although nothing was sent when the sleep wins against its
  request or when it finds no completer (`trace_flusher.rs:274`), though
  `trace_send_data.rs:26` says it can be awaited "to determine when data has
  actually been sent". FlushCovers is about requests that reach the task.
- A writer that dies inside a write inverts the parity of the generation for its
  successor (`one_way_shared_memory.rs:203`; after `died` nothing is claimed).
- A reader with an old length, or the next sidecar, makes the file shorter than
  the writer's mapping, and the writer's stores are then beyond its end, though
  `one_way_shared_memory.rs:199` says "ShmHandle is always big enough"; a reader
  can meet the same, or keep zeros (`ReadsWholeWrites` says where).
- `ShmLimiterMemory::create` means to "Clean leftover shm" (`rate_limiter.rs:44`)
  with `unlink`, which does not remove what `shm_open` made; counts and links of
  an earlier sidecar stay. SlotsSound is about a fresh region.
- A thread that swaps in an old reading of the clock sets `last_update` back and
  the time in between is counted twice: RateHolds bounds what passes from the
  limiter's start, not in every later window.
- MaxChannelsPerKey removes the entry of a key when it reads that the key's
  channels are gone, though a new channel has come in the meantime; the limit then
  starts from zero (`channels_per_key.rs:237`).
- The late response of a call that timed out makes `is_closed` take the connection
  for closed (`transport/blocking.rs:175`), and a call whose server closes the
  connection reads its end again and again (`transport/blocking.rs:189`).
- After a telemetry worker could not be spawned, what waits for it waits for ever
  (`sidecar_server.rs:607`). A late point whose task runs before the one that
  registers its metric panics (`app_instance.rs:60`), and from then on metrics and
  points of the app, and registrations that hold any, are lost.
- A late task that gets the session of a connection already ended, or a handler
  that outlives its broken connection, creates the session anew, and nobody
  removes it (`sidecar_server.rs:968`; SessionsSound excepts it).

## 6. What the models leave out

Contents: payloads, spans, logs, files and messages are model values; encodings,
HTTP, TLS and logging have no counterpart. Clocks are coarse counters or flags.
TelemetryWorker leaves out stats and integrations and takes metrics as counts
(the code drops series with a failed request, and no property says otherwise).
TraceExporter leaves out a shutdown with a timeout. TraceFlusher leaves out
`write_remote_configs` and statistics. SidecarSessions leaves out runtimes inside
a session. TelemetryApps has one metric, one item per enqueued list, and no
composer files. ShmLimiter leaves out the growth of the region (`ensure_index`),
RateLimiter `reset`. The blocking client's reconnecting wrapper and the reader of
published agent information are not there. Weak memory is not modelled anywhere.
`PROJECT.json` lists every component with its status.

## 7. Proof techniques out of reach

Liveness under fairness and ENABLED, induction over data, and recursive operators
stay with TLC.

## 8. Plan

Next, in this order:

1. crash tracker: the collector's handler with its one-shot flag, fork and
   receiver, the receiver's line protocol and the report builder;
2. profiles: interning, observations with and without timestamps, upscaling, reset
   and the string storage;
3. DogStatsD aggregator and flusher, metrics of telemetry, the sketch's bins;
4. sending of traces: retry strategy, coalescing and the mini agent's channels;
5. live debugger: expression evaluation against a reference, the sender, and the
   diagnostics bookkeeper; library configuration;
6. sidecar process: election of one sidecar, watchdog, temporary log levels;
   runtimes inside SidecarSessions;
7. allocators, byte buffers, the C array queue, and descriptors passed in messages.

Proofs planned: `AdvertisedStored` and the counts of SharedFetcher, `OneFlusher`,
`DroppedIsCancelled` and `TrackedHasOwner`, the slots of ShmLimiter, and the
refinement of FileRegistry.
