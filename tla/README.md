# Encomm System Watch in TLA+

Encomm System Watch draws a live graph of a Windows machine: processes, their
connections, GPUs, containers, AI runtimes. A Python backend (`backend/app`)
collects, compares and publishes; a web frontend (`frontend/src`) shows; a Tauri
shell (`frontend/src-tauri`) starts and stops the backend. These modules model the
parts of it where order, concurrency, loss and failure decide whether the graph on
the screen is the machine's.

## The system

### Components, their state and operations

| component | state | operations | correct when |
| --- | --- | --- | --- |
| event stream, `services/event_stream.py` | a bounded `asyncio.Queue` per subscriber | `subscribe`, `unsubscribe`, `publish`, `publish_message` | a slow subscriber loses only the oldest items, and never order |
| collector loop, `main.py` `_collect_loop` | `_state["topology"]`, the diff engine's previous snapshot | one tick: collect, build, diff, detect, publish | the published events carry every client from its snapshot to the current topology |
| endpoint, `main.py` `ws_endpoint` | its subscription, a local batch | accept, wait for a topology, snapshot, batch, send | nothing is stranded or reordered within an element |
| benchmark mode, `benchmark_graph.py` and the gates in `main.py` | an active flag, a synthetic fixture | activate, deactivate | real and synthetic state do not mix |
| topology engine, `services/topology.py` | none (a function of a snapshot) | `build` | edges end at nodes, loopback pairs are one edge, caps hold |
| diff engine, `services/diff_engine.py` | `_prev_snap`, `_prev_topo` | `diff` | the events describe the change of membership |
| client graph, `GraphController.ts` | Cytoscape elements, fade timers, pending removals | `replaceAll`, `applyEvent` | the graph on the screen is the server's |
| ETW provider, `telemetry/windows_network.py` | TCB map, buffer, session, capability | ETW handlers, `drain`, `drop_tcb_tuples`, `start`, `mark_degraded` | bytes go to their connection |
| activity aggregator, `telemetry/activity_aggregator.py` | evidence maps, absence counts | `set_topology`, `record_many`, `flush` | an open connection keeps its identity, a closed one loses it |
| telemetry loop and health, `main.py`, `services/etw_health.py` | capability shown, health state | tick, sample, surface transitions, probe | the operator is told of a frozen or dead telemetry, and only then |
| infrastructure loop, `main.py`, `services/infra.py` | last good state and baseline per platform | cadenced collection, diff, merge into the snapshot | a failing collector never wipes the graph |
| GPU loop, `main.py`, `collectors/gpu.py` | last sample, process lists | sample, attach, detach | the edges of processes to GPUs follow the samples |
| semantic engine and detectors, `services/semantic.py`, `detectors/` | previous detections, the last answer of LM Studio | detect, diff, snapshot | a client shows the processes and what is detected |
| AI telemetry, `ai_telemetry/` | active runs, endpoints and their queues of runs, metrics, provider status | ingest, prune, poll, publish | each run starts and finishes once, a busy run is kept, clients learn what was published without them |
| desktop shell, `backend_manager.rs`, `lib.rs` | the child it owns | probe, adopt, spawn, gate, stop | one healthy backend, and only its own is stopped |
| WebSocket client, `services/ws.ts` | socket, watchdog, back-off | connect, reconnect, close | one live socket, found dead within the watchdog's time |

Collectors of raw data (psutil, docker, wsl, Hyper-V, nvidia-smi), redaction,
the HTTP views, the drawing code and the scripts keep no state whose order matters;
`PROJECT.json` lists them with the reason each is left out or enters another
module only as a choice of inputs.

### How they interact

All backend loops run on one asyncio event loop, so the code between two `await`s
is atomic, and what was read before an `await` may be stale after it. The loops
share `_state` and the event stream. Two things run elsewhere: collectors in worker
threads (`to_thread`), whose result is assigned afterwards, and the ETW consumer
thread, which shares the provider with the telemetry loop under the provider's
lock. The collector tells the aggregator the topology, which calls back into the
provider with the connections it holds for closed. To a client flow, over one
ordered socket, a snapshot and then events and messages; nothing flows back. In the
client, fade timers run between two messages.

### What is hard here

* Loss: queues drop their oldest items, ETW loses identity events, psutil misses
  processes and sockets for a tick, and its removal events come 10 to 35 s late.
* Staleness: the diff engine moves on before its events are published, the
  subscription is older than the snapshot, infrastructure edges are computed from a
  topology read before the collection.
* Order: a typed message overtakes the batch it interrupts, timers of a removed
  element fire after its return, kernel handles are reused before the removal of
  their predecessor is seen.
* Partial failure: anything raising after `diff()` loses the tick; the ETW session
  fails to start or dies between any two stages of the loop; a poll of an agent gateway
  is silent or garbled, a sample has no process lists, a detector raises.
* Sending only changes: what nobody received is only sent again if something makes it
  differ, or makes it due.

`PROJECT.json` lists the hazards line by line with the properties aimed at them.

## The modules

| module | models | checked by |
| --- | --- | --- |
| `Listing` | sorted and filtered lists in closed form (with `ListingLemmas`) | (used by others) |
| `BoundedQueue` | the newest-window operators queues are described with | (used by the next) |
| `LossyFeed` | abstract: what a subscriber is promised, without queues | refinement target |
| `EventStream` | the stream, `publish` in closed form | `stream`, `StreamProofs` |
| `EventStreamLoop` | the stream with the code's loops and the QueueFull branch | `stream`, `StreamProofs` |
| `LiveFeed` | collector tick, benchmark, stream, endpoint, client view | `feed`, `LiveFeedProofs` |
| `Topology`, `DiffEngine` | `build` and `diff` as operators on snapshots | in `GraphSync` |
| `ClientGraph` | snapshot, events, fades and timers of the client graph | in `GraphSync` |
| `GraphSync` | ticks, events and timers composed: server against screen | `graph`, `GraphSyncProofs` |
| `SemanticFeed` | detectors, semantic engine, order of publishing, client | `semantic`, `semantic_truth`, `WatchProofs` |
| `EtwAttribution` | kernel, ETW thread, aggregator, collector's closing of tuples | `etw_attribution`, `EtwAttributionProofs` |
| `TelemetryWatch` | health sampling, capability, death of the session | `telemetry_watch`, `WatchProofs` |
| `InfraFeed` | infrastructure pass, last good state, diffs, snapshot, client | `infra`, `infra_wipe`, `InfraFeedProofs` |
| `GpuFeed` | samples, process lists, attach and detach, the client's edges | `gpu`, `AiProofs` |
| `HermesRuns` | gateways, discovery, polling, runs told from counts | `hermes`, `AiProofs` |
| `AiTelemetry` | active runs, publishing of changes, the client's transient nodes | `ai`, `StreamProofs` |

`MC*.tla` give the constants that a `.cfg` cannot write; each `.cfg` is one run.

A proofs module extends the model it is about; `StreamProofs`, `WatchProofs` and `AiProofs`
extend two models that share no state, so that the second of each pair names its parts with a
prefix (`AiInit`, `SemNext`, `HermesTypeOK`, ...).

An action is a stretch of code without an `await` (or one holding a lock). Thus
`DiffTick` and `FinishTick` are the two halves of a collector tick around the wait
for the detectors, and `FailTick` is the `except` of the loop; `ReceiveEvents` is the
batching loop up to its next `send_json`; `HealthStage` and `Probe` are the stages of
`_telemetry_loop` between which the ETW thread may run. Payloads are abstracted to
what decides: a node of the graph, a socket with its two addresses and owner, a
counter that has or has not moved since the last sample. Operators named with a
suffix beside the one they vary (`OpenEdgeKeepsFade`, `VisibleOnce`, ...) are
plausible mistakes, kept to show that each property would notice one.

`LiveFeed` is about the process nodes. The edges between them are `GraphSync`'s subject: the
diff sends no close for the edges of a stopped process, and the client takes them away with
its node, when that has faded. What `LiveFeed` keeps of connections is that an opened one
draws the nodes at its ends again. Rows of other loops (semantic events, published before the
diff's of the same tick, GPU and infrastructure events) matter to it because one that brings
an edge to a node the client lacks throws, and the rest of the frame is not applied; which
rows do is left open there (`Cuts`), as `SemanticFeed` says it.

`InfraFeed` has one of the four platforms per behaviour, picked initially: they share
the loop and the engine but no state, and differ in which failures are recognised and
which changes are announced. A pass is `Collect` (or one of the three ways a collector
fails) up to its `await` and `Update` after it; `IdlePass` is a pass in which the
platform is not due. What the engine believes is compared to the host, and what a client
shows to what the engine believes. A container is linked to its own networks, some of which a
client may lack, so of each frame any number of events may be applied before one throws.

`SemanticFeed`, `GpuFeed` and `AiTelemetry` each look at one kind of thing on the whole
way from its source to the screen. `SemanticFeed` keeps the queue, its bound and its frames, because
what breaks there is a frame; the two others apply at once what they publish, because
queues are `LiveFeed`'s subject, and let an edge of somebody else's cut it: a batch of GPU
events may be applied in part, and a snapshot, whose edges are added in one `cy.add` with the
relationships before USES_GPU, may draw no edge. In `SemanticFeed` an answer of LM Studio that
is reused is the one stored in `_last_ok`: it is younger than two intervals and probes are
at least one apart, so it is that of the last good probe, whichever port gave it. A GPU sample is one of four actions (`SampleAll`,
`SampleMetrics`, `SampleFails`, `ListsFail`) that end in the same `Adopt`, as every pass of
`_gpu_loop` does. In `HermesRuns` a poll is one action: `_tick` does not yield during it.

History variables record what a property must tell apart and are never read by a
guard: `stale` and `unsent` (which processes' last event was lost), `odd` (what
unusual thing happened to an edge), `missed`, `unseen` and `gone` (which handles and
connections the ETW thread was misinformed about), `known` and `untold` (what was truly
observed of an item, and which items a client was by design not told of), `unmapped` and
`busy` (how long a freeze has really lasted), `base`, `told` and `approx` (where an
endpoint's count began, what was told of it, and whether the names of its runs are
guesses), `idle`, `ended`, `crowded` and `lost` (how long a run has been silent, whether its
end was reported, which nodes the cap pushed out, which the last snapshot failed to draw
again), `missed` of `SemanticFeed` (nodes whose last event the queue dropped or stood behind
an edge that could not be added), `excused` and `clean` (uses of
a GPU the client is not told of; no sample has failed since the last full one).

## The runs

* `stream`: two clients, three slots, batches of up to four, so a batch alone can
  overflow a queue. The waiting items are the newest window, the code's loops
  implement the closed form, and the closed form implements `LossyFeed`. That the
  queues stay well formed is proved and not checked again.
* `feed`: two processes, one end of a connection opened per tick, one client, a queue of two
  and a batch of two, three ticks and two messages of other loops, with or without a `type`,
  which is what decides whether a message interrupts the batch. One client is enough:
  connections share no state but the stream, where `stream` has two. Every loss is possible in
  these bounds (a tick's rows and events overflow the queue; a batch is interrupted; a row
  throws and cuts its frame; a tick fails or is forgone in benchmark mode while a client
  connects). `DamageConfined`: snapshot, batch, queue and running tick always add up to the
  diff engine's processes, except for those whose own last event was lost.
  `ClientsConverge`: and they get there.
* `graph`: two processes with a socket each to own endpoints and a loopback pair,
  caps of one, two sockets or processes changing per tick, and a tick that may come
  while events and fades of the last are under way. The client shows the server's
  graph up to four things `odd` names, all of which the code can really do:
  a socket that moves to another edge under the same key is announced by nothing;
  a node wanted again while fading spares the edges that were to go with it; an edge
  reopened while fading keeps old ports; an edge opened anew after its node has gone
  is taken by its own older timer, because `pendingEdgeRemoves` is not cleared on
  that path. If fades end before the next tick only the first is left: the last three
  count only for an edge that got an event while an earlier tick's fades were still under
  way (`Unusual`). Nodes and ports at the ends of an edge are part of the type invariant.
* `etw_attribution`: two connections of a process, one after the other, on two
  handles, map and buffer of one entry. Every transfer meets exactly one fate, and
  misattribution needs a lost or late identity event; removals, however late, are
  not enough. A connection that left the topology and is missing from two in a row is
  forgotten (`GoneIsForgotten`), one missing from one is not. A connection that opens and closes
  between two scans is in no topology and never counted as absent: only a removal event or the
  TTL takes its entry. A removal by address takes both ends of a loopback connection. In a
  window without any item the code updates no counter: its transfers are "uncounted".
* `telemetry_watch`: a sample every second window and a threshold of five windows (in
  the code 25 and 225 windows of 400 ms). DEGRADED is only reported for a freeze that lasted
  the threshold; every such freeze with an edge to attribute to is reported. (What is reported
  without one is left open: see below.) The proofs hold for every pair, and for the types
  only the proof is kept.
* `infra`: two items of each platform with up to four statuses, two real changes, and one
  collection that raises, answers nothing or answers in part, at any moment, before the
  baseline too; a client that connects at any moment and gets events in frames of any
  length, of which it applies any part. No failure that raises changes what the engine
  believes (`LastGoodKept`), no change is made up (`NoFakeEvent`), and when changes and failures
  end the engine believes the truth for good (`EngineConverges`). A client agrees up to what
  `untold` names, all of which the code can really do: changes for which there is no event (a
  service installed stopped, a distribution that comes or goes), events behind one that threw
  on a container's edge to a network that only a snapshot brings, and the baseline, for a client
  that connected before it. One item does not show a frame broken between two events; two do.
  One fault suffices because a pass keeps nothing of a failure but the last good state.
* `semantic`: a Hermes gateway, an MCP server that is its child and of its family, and LM
  Studio with a listener; these three have every relation between detections that the
  detectors draw (a member in two of them, a parent, a host, an API). Two processes or
  listeners change, a detector raises once, the queue holds four events, fewer than a tick may
  bring, and a frame three, a client connects at any moment. The client shows the processes and detections of the server but
  for `missed` (`ClientAgrees`), and the engine ends at what is there (`EngineSettles`).
* `gpu`: two GPUs and two processes, by NVML or by nvidia-smi, three changes of users or
  processes, and one sample that fails, in whole or in some of the lists. Every use the loop
  knows of is drawn but for the cases the code really has (`UsesShown`): it was listed before
  the topology knew the process; before the client had GPU nodes, or the loop a first sample;
  together with another GPU, for an event names only the last device; it had not reached the
  engine when the client connected; or an edge that lacks an end (of an ended process, of a
  model nothing detects) stood before it in the frame or in the snapshot. While samples succeed
  nothing is announced that did not happen, whatever ticks ask for metrics only (`EventsTrue`).
* `hermes`: two gateways (or one URL that is given), up to three agents each, a queue of
  two runs instead of 64, so that it overflows, four changes and one faulty poll; a fault
  costs an endpoint its memory or an answer, and a second one does the same again. What was
  told of an endpoint adds up to its count, and unless it had agents when it was found or
  more of them than the queue holds, the runs finish in the order they started, once each
  (`RunsMatched`). When changes and faults end, a gateway that stays is known, and the runs
  told of it since its first answer are the change of its count (`CountsSettle`). Runs that
  were open when a gateway was missed are not meant: it is forgotten with them, its first
  answer afterwards tells nothing, and no event ever finishes them (`hermes_provider.py:139-155`
  and `235`); the buffer's TTL ends them.
* `ai`: three traces and a span, two slots for active runs and two for nodes, so that both
  caps are met with one run older than another; old after two steps of time; three events, late,
  repeated or never; two moves of the client or the benchmark switch, enough for a message to
  be missed and the client to come back. A run leaves the active runs by its end, by silence, or
  as the one that was started first when another starts at the cap (`RunKeptWhileBusy`). What is
  drawn expires, or was pushed out of the map by the cap and stays until the next snapshot; what
  the map lists is drawn, unless the last snapshot threw before it drew it again
  (`DrawnExpires`). A client that stays learns states and runs that were published without it
  (`StatusReaches`, `RunsReach`); the first it owes to the time of the poll, which is a part of
  the compared status, so that states are published again with every tick.

Two runs end in a violation, each of one statement the repository makes:

* `infra_wipe`: a docker CLI that times out, or a PowerShell that does not answer, is an
  empty state rather than an exception, and is adopted, although "a transient collector
  failure must NEVER wipe the graph".
* `semantic_truth`: semantic events go out before the process events of their tick. The
  first edge to a process that is new in that tick throws, the frame ends there, and the
  process itself is never drawn, although "SYSTEM WATCH's raw process truth stays intact".

## Where the code and its documents disagree

Besides these two runs, three of the properties that hold are about behaviour of which a
comment, a document or a test says something else. The properties state what the code does,
and leave open or name what it does against its documents:

* `FreezeIsReported`: DEGRADED means a freeze "while topology edges exist"
  (`etw_health.py:19-20`, its message at 117, `ARCHITECTURE.md:537`), but `sample()` reads
  neither `edges_tracked` nor `active_conns`, so it is reported with no edge tracked
  (`test_etw_health.py:81-88` expects that). The property is about freezes with an edge.
* `DrawnExpires`: AI nodes have a "hard node cap" and "must never permanently explode graph
  node count" (`GraphController.ts:531-532`, likewise 565-568, 1223 and `ARCHITECTURE.md:724`),
  but the loop at 965-969 takes the oldest from the map only: it stays in the graph, where no
  timer looks for it, until the next snapshot. The property calls these nodes `crowded`; with
  three nodes and a cap of two the graph holds three.
* `StatusReaches`: `ai_provider_status` is sent for "provider state transitions only"
  (`registry.py:9`, "change-only" in `ARCHITECTURE.md:676`, `test_ai_telemetry.py:492-494`), but
  `last_poll` (`base.py:62`) makes the status of every tick differ from the last. (The two ticks
  of that test are given a synthetic time, which `last_poll` does not use; they differ once the
  real clock advances between them.) If states went out on transitions only, as the mutant
  `StatusOfState` has it, a client that was away at one would not learn it, and the property
  fails: the documented behaviour would need another way to tell it.

## Fairness

`LiveFeed` assumes weak fairness of finishing a tick (detectors run with their own
errors caught and asyncio returns to the loop) and of each endpoint (a client that
reads its socket lets `send_json` return; one that does not is the action
`Disconnect`, of which nothing is assumed). `TelemetryWatch` assumes weak fairness of
the loop: it catches every exception and sleeps a bounded time. `InfraFeed` assumes that
the first collector tick comes, that the loop resumes after an `await` (weak; collectors
have timeouts of their own), and that a collector that is due again and again answers
again and again (strong: passes in which it is not due, or fails, come in between).
`HermesRuns` assumes weak fairness of a poll that
finds what runs and is answered by it (`run_loop` polls for ever, and `PollSome` is
bounded, as failures are that are to be recovered from). `AiTelemetry` assumes that
`run_loop` ticks (it catches what a tick raises and sleeps a bounded time), and
`SemanticFeed` that the detectors become due and return (the cadence counts ticks, and
their requests have timeouts), in whichever way. Nothing is assumed of ticks in
`LiveFeed`, of the benchmark switch, of connections, of the ETW thread, of what is
reported to the AI telemetry or of the host. The other modules state safety only.

## What is proved

Every invariant, every action property and every refinement a passing run checks is also a
theorem. The proofs hold for all values of the constants, under
the assumptions the modules name:

| assumption | says |
| --- | --- |
| `StreamAssumption` | a queue has at least one slot |
| `FeedAssumption` | finitely many processes, numbered since `diff()` sorts; no topology is None; a queue and a batch hold at least one item |
| `TopologyAssumption`, `BoundsAssumption` | finitely many processes and sockets, whose ids and those of endpoints differ (they are prefixed); the bounds are natural numbers |
| `AttributionAssumption` | every connection has a process; map and buffer hold at least one item |
| `WatchAssumption` | intervals of at least one window |
| `InfraAssumption` | finitely many items, numbered since the diffs go through them in order |
| `SemanticAssumption` | finitely many processes; ids of processes, listeners and detections differ; a frame has at least one event |
| `GpuAssumption` | device indices are natural numbers |
| `HermesAssumption` | a queue holds at least one run |
| `AiAssumption` | caps and ages are at least one |

* `StreamProofs`, `EventStream` and `EventStreamLoop`: types, `QueueIsNewestWindow`, and that
  the code's loops implement the closed form and this `LossyFeed`. The inductive invariant is
  the window itself with types: each of `Get`, `Publish`, `Subscribe` restores it, `Publish` by
  the lemmas on `Latest`. A step of the loop is one of the closed form because one put leaves
  the newest items of the queue and its event (`PutKeepsLatest`), so that what the closed form
  says after each event satisfies the recursive equations of the loop, and no other function
  does (`PutAllKeepsLatest`: a first event where they differ cannot be). The queue must not be
  overfull for this, which the window says.
* `StreamProofs`, `AiTelemetry`: types, `DrawnExpires` and `RunKeptWhileBusy`. The active
  runs and the nodes drawn are lists without repetition within their caps (`Lists`), and the
  age the code keeps of an active run is the time since its last event (`AgeIsIdle`): no
  event of a run, late or repeated, fails to refresh it. Only from this follows that what is
  pruned by age was really silent. That the cap takes the run started first is a fact about
  the list with the new run behind it (`FirstGoes`).
* `LiveFeedProofs`: types (with the limits of queues and batches) and `DamageConfined`.
  The property alone is not inductive: a snapshot serves `topology`, which lags behind the
  diff engine by the running tick and by the ticks that failed, and events may wait in the
  queue of a client whose snapshot is only now taken. `Phases` says in which state of the
  collector and the endpoint nothing is under way; `EventsTell` that what the running
  tick's events say of a process is so in `prev`; `TopologyLags` that `topology` and these
  events give `prev` but for processes of failed ticks; `QueueTells` that what a queue says
  of a process that is not stale is so in `topology`; `Delivers` is the property process by
  process. Its lemmas make this provable for queues of any length: the
  last word of a sequence on a process (`Says`, `Silent`), how it fares in
  concatenation, in the queue's overflow, in `Applied` and in `Diff`. Where one would use
  induction, a least element is taken (from the well-foundedness of `<`).
* `GraphSyncProofs`: all five invariants of the run. They speak of a client that has applied
  everything, but what it then shows was decided by the events it had not applied before.
  The inductive invariant foretells: whatever the client shows now, the events in its inbox
  leave of each process (`RunsForetold`), edge (`EdgesForetold`) and list of ports
  (`PortsForetold`) what the server has; new ports find their edge standing (`ListsMeet`).
  Fades need two more parts: whatever is pending has a timer (`Timed`), so a client whose
  timers have fired shows nothing that is on its way out; and while the client keeps up, the
  order in which `diff` lists what opens and what closes keeps any pending element from being
  wanted again (`Calm`), so that only a moved socket can make it differ. The lemmas state what
  `diff` reports of which socket, and that the ends of each edge are nodes. `PairIsOneEdge`
  is about `build` alone: the two sides of a loopback connection have no other peers, as
  psutil lists a socket once, and are drawn as one edge between their processes.
* `EtwAttributionProofs`: everything its run checks, for any number of handles,
  connections and events. `MisattributionNeedsLoss` speaks of the buffer, but what goes in
  there depends on what the map will say when a transfer is handled, behind the events
  still on their way. `InOrder` says it in advance: the last identity event of the handle
  in front of the transfer, or the map if there is none, names the connection the transfer
  was made on; and the same of the end of the pipe and the connection the handle serves.
  `StandsTail` shows that handling the first event keeps this, whatever else is taken from
  the map. `Counted` says that the aggregator's count of absences is the number of
  topologies without the connection, and that no scan is open while connections wait to be
  dropped, from which `GoneIsForgotten` and `SingleMissHarmless` follow.
* `WatchProofs`, `TelemetryWatch`: types, `DegradedIsEarned`, `FreezeIsReported`,
  `AlarmIsTold` and `DemotionSticks`. None of the middle two is inductive: the verdict depends
  on ages of four different things. The strengthening has three parts: `Cadence` (where the
  loop stands bounds the age of the last sample, and what has moved moved since it),
  `Count` (the count of a freeze is never ahead of the real freeze) and `Promptness`
  (and never more than two intervals behind it). `TierKept` says the provider's own
  capability is never above the one shown, which is why a tick that reads it late
  cannot give a tier back.
* `WatchProofs`, `SemanticFeed`: types and `ClientAgrees`, which speaks of an empty queue.
  `Told` says of any queue that what it says last of a node is so, and where it says nothing
  the client shows what is so, unless the node's event was lost. A tick keeps this because
  its news are true and complete: none reports what is not so after it, and nothing that
  changed goes without (`Truthful`, `Complete`, and `Abreast`, which says between which two
  scans the news were found, as the detectors run in between). A delivery keeps it because a
  frame is applied up to its first edge that has no node, and what stands behind that edge is
  lost (`DeliverKeeps`), and so does a full queue, which speaks last of what it drops
  or has it missed (`DropTells`).
* `InfraFeedProofs`: types, `LastGoodKept`, `NoFakeEvent` and `ClientAgrees`. The first
  needs `Believed`: once there is a baseline the engine's dict and the last good state are
  one, and an open pass will reach the engine. The loop keeps a last good state from its
  first second on, but the engine gets none before the first collector tick, so the two
  differ at first. `ClientAgrees` speaks of an empty channel; `Agrees` says for every
  channel that what it says last of an item is what the engine believes (`LastSays`), and
  if it says nothing (`Quiet`) the client shows that. An update keeps it since each change
  of status is announced or `Unheard` (`AnnouncedOrUnheard`), a delivery since the applied,
  the dropped and the remaining events are parts of the channel (`Parts`).
* `AiProofs`, `GpuFeed`: types, `UsesShown` and `EventsTrue`. `UsesShown` is inductive with the
  types: a use that enters the lists without an excuse is its process's only one, so its
  GPU is the last that lists the process, and the batch adds that edge. `EventsTrue` needs
  `CarriedIsPrev`: unless a sample has failed, the lists a tick carries over are those that
  were compared last, so only a full sample has anything to announce.
* `AiProofs`, `HermesRuns`: types and `RunsMatched`. For each endpoint: nothing is kept
  of it when it is not known (`Forgotten`); the count it answered last is the count of its
  first answer, plus the runs started since, less those finished (`Answered`); and unless the
  names are guesses, what started is what finished followed by what the queue holds
  (`InOrder`). The lemmas say what a bounded queue keeps of what is appended and popped.

`ListingLemmas` has what `Sorted`, `Sublist` and `Where`, the closed forms of sorting and
filtering, return and keep; the others use it.

Only checked by TLC: liveness (`ClientsConverge`, `DeathIsTold`, `EngineConverges`,
`EngineSettles`, `CountsSettle`, `StatusReaches`, `RunsReach`), which the prover does not
reach; and the two statements that do not hold.

## Not modelled

Layout, cards, levels of detail, pulses and wording; the metrics of processes and
`UPDATED` events, which change no membership; parsing of ETW fields, of subprocess
output and of command lines; redaction; the seeded generator of the benchmark fixture;
the views served over HTTP. Time is modelled only where it decides (ages in
`TelemetryWatch`, order of timers in `ClientGraph`); elsewhere whatever a timeout could
do is a free choice.

Of the parts that are modelled in part: the bursts and rates of the aggregator, filters
and levels of detail of the client graph, token windows and history of the AI buffer (texts
and sums no other state depends on), the OTEL seam (it never has data), the LOCAL_LLM
detections of the semantic engine (no detector returns one), the fixtures of the benchmark.
The process and system collectors are a choice of snapshots in the modules that read them.

## What was seen on the way

Besides the disagreements above, things the code does that no property is about, or that
properties name as exceptions:

* Benchmark: rows of AI activity have no `type` and pass the gate that suppresses AI
  messages (`main.py:226-230`); deactivating sends connected clients nothing, so real events
  land on the synthetic graph until they reconnect (`main.py:681-683`).
* Connections: a process that the scan misses while psutil lists its socket gets no
  CONNECTION_OPENED later, for the diff engine saw the socket before (`diff_engine.py:125`).
* ETW: a session that never started is reported with "capability was demoted"
  (`etw_health.py:61`); the aggregator refreshes its counters only in windows that had items.
* AI telemetry: events of the Hermes provider have no `trace_id`, so their start and finish
  are two nodes and their runs are never among the active runs, though `buffer.py:5` speaks
  of them. Metrics that fall back to no runs and are lost are not sent again. Pruning happens
  at events only, and by order of start, so the cap may take a busy run. A snapshot one of whose
  edges throws leaves the surviving AI nodes undrawn (`GraphController.ts:1305-1315`).
* Hermes: made-up names can repeat one that has finished; an endpoint psutil misses once is
  forgotten with its open runs; two gateways of one profile share the names of their runs;
  `_tick` does its HTTP requests on the event loop.
* Semantic: a detector that raises withdraws what it had found; new members of a detection
  that stays send no event; an answer of LM Studio is reused between probes even after a
  failed one (`lm_studio.py:11-12`); SERVES_MODEL edges end at nodes nothing detects, so a
  snapshot with one throws; edges between parents and children come with snapshots only.
* GPU: a detach event names no edge, so the client keeps the edge (`main.py:453-456`); after a
  failed sample a tick that asks for metrics only detaches all processes, and the next full
  one attaches them again, and a first sample that fails does the latter (`gpu.py:246-247`,
  against `main.py:437`); a process listed before the topology knows it never gets an edge;
  nvidia-smi lists every process on every GPU.

## Plan

In order of importance; the first seven are done, with their proofs.

1. Event stream and its abstract feed.
2. Live feed: collector, endpoint, benchmark, loss.
3. Topology, diff and client graph: server against screen.
4. Telemetry: attribution (`EtwAttribution`) and health (`TelemetryWatch`).
5. Infrastructure (`InfraFeed`): last good state, diffs, client.
6. Detections (`SemanticFeed`) and GPUs (`GpuFeed`).
7. AI telemetry: runs from counts (`HermesRuns`), active runs, publishing (`AiTelemetry`).
8. `BackendManager` with `WatchSocket`: two shells, probe, adopt, spawn, gate, stop, a
   crash of either side; the client's watchdog and back-off.
9. The rest of the client: filters, levels of detail, activity and pulses; the
   aggregator's rates and bursts as operators against reference definitions.

Theorems still worth proving: that `SemanticFeed` and `InfraFeed` implement one abstract
channel (in both, what the queue says last of an item is what its sender believes, which the
two proofs show separately), and of `Topology` and `DiffEngine` against a definition of
`build` with its caps that does not mention order. Writing the proofs has already changed the
models where they were less clear than the code: overlapping cases of a CASE, of which TLC
takes the first and a proof none, became IF, and what was said by a fold over a queue or a
frame is said by what it leaves.
