------------------------------- MODULE LiveFeed -------------------------------
(***************************************************************************)
(* The live feed, end to end: the collector loop of backend/app/main.py    *)
(* with the await between diffing a tick and publishing it, the benchmark  *)
(* switch, the event stream's bounded queues, the /ws endpoint with its    *)
(* wait for a first topology and its batching, and the graph each client   *)
(* builds from the snapshot and the events.                                *)
(*                                                                         *)
(* The model is about the process nodes of the graph: a topology is the    *)
(* set of its processes.  (The edges between them are GraphSync's subject: *)
(* they live and die with their ends.)  asyncio runs the code between two  *)
(* awaits without interruption, so an action is one such stretch.  A frame *)
(* that ws.send_json sent is applied at once: frames of one socket arrive  *)
(* in order and nothing flows back.                                        *)
(***************************************************************************)
EXTENDS BoundedQueue, Listing, FiniteSets, SequencesExt

CONSTANTS
  Proc,           \* processes of the machine; numbers, since diff() sorts
  Client,         \* WebSocket connections
  QueueSize,      \* EventStream(queue_size)
  MaxEventBatch,  \* cfg.max_event_batch
  MaxOpened,      \* bound: connection ends opened in one tick
  MaxTicks,       \* bound: collector ticks in a behaviour
  MaxSide,        \* bound: messages of the other loops in a behaviour
  NoTopology      \* None, before the first collector tick

ASSUME FeedAssumption ==
  /\ Proc \subseteq Nat /\ IsFiniteSet(Proc)
  /\ \A procs \in SUBSET Proc : procs # NoTopology
  /\ {QueueSize, MaxEventBatch} \subseteq Nat \ {0}
  /\ {MaxOpened, MaxTicks, MaxSide} \subseteq Nat

VARIABLES
  prev,      \* DiffEngine._prev_topo
  topology,  \* _state["topology"], what a snapshot serves
  tick,      \* the collector: "idle", or "detecting" (awaiting the detectors)
  events,    \* the collector's local `events`, still unpublished
  bench,     \* benchmark.active
  queue,     \* queue[c]: the subscription of connection c
  ws,        \* ws[c]: where the endpoint's coroutine for c stands
  batch,     \* batch[c]: its local `batch`
  view,      \* view[c]: processes the client draws, those that fade left out
  unsent,    \* history: processes of failed ticks, not in topology either
  stale,     \* history: processes whose latest event c missed or will miss
  ticks, side  \* counters for the bounds

server  == <<prev, topology, tick, events, bench>>
history == <<unsent, stale, ticks, side>>
vars    == <<server, queue, ws, batch, view, history>>

(* Items of the stream.  Three kinds of diff events bear on the node of a  *)
(* process: its start, its stop, and a connection opened at one end of it  *)
(* (the client upserts the nodes at both ends, so a connection between two *)
(* processes counts as two such events).  Connections closed and metrics   *)
(* are "quiet".  The other loops publish complete protocol messages, which *)
(* carry a "type" (network activity, GPU state, AI telemetry), and rows of *)
(* the events log, which like the diff's events do not: semantic, GPU,     *)
(* infrastructure and AI events, some of which bring an edge.              *)
Event == [kind : {"started", "stopped", "opened"}, proc : Proc]
Message == [kind |-> "message"]
Row     == [kind |-> "row"]
Quiet   == [kind |-> "quiet"]
Side    == {Message, Row, Quiet}

IsTyped(m) == m = Message
IsEvent(m) == m.kind \in {"started", "stopped", "opened"}
ProcsOf(s) == {m.proc : m \in {n \in Range(s) : IsEvent(n)}}

(* DiffEngine.diff, its events on processes: who has come, who has gone,   *)
(* each sorted, then the ends of the connections opened, all of processes  *)
(* of the new topology, in the order of the connections' keys.             *)
Listed(kind, procs) ==
  [i \in 1..Cardinality(procs) |-> [kind |-> kind, proc |-> Sorted(procs)[i]]]

Diff(old, new, opened) ==
  Listed("started", new \ old) \o Listed("stopped", old \ new)
    \o [i \in 1..Len(opened) |-> [kind |-> "opened", proc |-> opened[i]]]

(* The client's graph after it applies s in order: a stop fades the node,  *)
(* the other two draw it, also one that fades.                             *)
Applied(graph, s) ==
  LET drawn == {m.proc : m \in {n \in Range(s) : n.kind \in {"started", "opened"}}}
      last(p) == LET at == {i \in 1..Len(s) : s[i] \in Event /\ s[i].proc = p}
                 IN  s[CHOOSE i \in at : \A j \in at : j <= i].kind
  IN  {p \in graph \union drawn : p \in ProcsOf(s) => last(p) # "stopped"}

(* How much of a frame the client applies.  A row that brings an edge to a *)
(* node the client lacks throws, and nothing behind it is applied.  Which  *)
(* rows do is a choice here: SemanticFeed, GpuFeed and InfraFeed tell.     *)
Cuts(s) == {Len(s)} \union {i - 1 : i \in {j \in 1..Len(s) : s[j] = Row}}

Subscribed(c) == ws[c] # "off"

Init ==
  /\ prev = NoTopology /\ topology = NoTopology
  /\ tick = "idle" /\ events = <<>> /\ bench = FALSE
  /\ queue = [c \in Client |-> <<>>] /\ batch = [c \in Client |-> <<>>]
  /\ ws = [c \in Client |-> "off"]
  /\ view = [c \in Client |-> {}]
  /\ unsent = {} /\ stale = [c \in Client |-> {}]
  /\ ticks = 0 /\ side = 0

-----------------------------------------------------------------------------
(* Mutant: queues without a bound.                                         *)
EnqueueUnbounded(s, lost) ==
  /\ queue' = [c \in Client |-> IF Subscribed(c) THEN queue[c] \o s ELSE queue[c]]
  /\ stale' = [c \in Client |-> IF Subscribed(c)
                                THEN (stale[c] \ ProcsOf(s)) \union ProcsOf(lost)
                                ELSE stale[c]]

(* stream.publish of a list, or publish_message of one item, while the     *)
(* events `lost` are forgone: they reach no queue.  The history of a       *)
(* subscriber: a process is stale when the last event on it was discarded  *)
(* or forgone, and no longer so once a newer event on it waits.            *)
Enqueue(s, lost) ==
  /\ queue' = [c \in Client |->
                 IF Subscribed(c) THEN Latest(queue[c] \o s, QueueSize)
                                  ELSE queue[c]]
  /\ stale' = [c \in Client |->
                 IF Subscribed(c)
                 THEN (stale[c] \ ProcsOf(Latest(s, QueueSize)))
                        \union (ProcsOf(Overflow(queue[c] \o s, QueueSize))
                                  \ ProcsOf(Latest(queue[c] \o s, QueueSize)))
                        \union ProcsOf(lost)
                 ELSE stale[c]]

(* A tick up to the detectors: the diff engine has moved on to the new     *)
(* topology; the first topology is its baseline and yields no event.       *)
DiffTick(new, opened) ==
  /\ tick = "idle"
  /\ ticks < MaxTicks
  /\ ticks' = ticks + 1
  /\ tick' = "detecting"
  /\ prev' = new
  /\ events' = IF prev = NoTopology THEN <<>> ELSE Diff(prev, new, opened)
  /\ UNCHANGED <<topology, bench, queue, ws, batch, view, unsent, stale, side>>

(* The rows the semantic engine publishes after the detectors answered, if *)
(* they were due; none while the benchmark is active.                      *)
SemanticRows == IF bench THEN {<<>>} ELSE {<<>>, <<Row>>}

(* The rest of the tick: the semantic rows, then the diff's events, closes *)
(* and metrics behind them.  While the benchmark is active the real state  *)
(* is kept up but its events are not forwarded.                            *)
FinishTick ==
  /\ tick = "detecting"
  /\ tick' = "idle"
  /\ topology' = prev
  /\ events' = <<>>
  /\ unsent' = {}
  /\ \E rows \in SemanticRows, quiet \in {<<>>, <<Quiet>>} :
       IF bench THEN Enqueue(<<>>, events)
                ELSE Enqueue(rows \o events \o quiet, <<>>)
  /\ UNCHANGED <<prev, bench, ws, batch, view, ticks, side>>

(* Anything raising after diff() ends the tick in the loop's except: the   *)
(* diff engine has already moved on and these events are never sent; the   *)
(* semantic rows may have been.                                            *)
FailTick ==
  /\ tick = "detecting"
  /\ tick' = "idle"
  /\ events' = <<>>
  /\ unsent' = unsent \union ProcsOf(events)
  /\ \E rows \in SemanticRows : Enqueue(rows, events)
  /\ UNCHANGED <<prev, topology, bench, ws, batch, view, ticks, side>>

(* The other loops.  What the benchmark keeps them from publishing, or the *)
(* send seam from sending, changes nothing in the graph of processes.      *)
SideCalls == {<<Message>>, <<Message, Row>>, <<Row>>}

PublishSide ==
  /\ side < MaxSide
  /\ side' = side + 1
  /\ \E s \in SideCalls : Enqueue(s, <<>>)
  /\ UNCHANGED <<server, ws, batch, view, unsent, ticks>>

(* POST /api/benchmark/activate and /deactivate.                           *)
SwitchBenchmark ==
  /\ bench' = ~bench
  /\ UNCHANGED <<prev, topology, tick, events, queue, ws, batch, view,
                 unsent, stale, ticks, side>>

-----------------------------------------------------------------------------
(* _snapshot_message, computed and sent: the synthetic fixture while the   *)
(* benchmark is active, else the latest published topology, or nothing.    *)
SendSnapshot(c) ==
  LET real == ~bench /\ topology # NoTopology IN
  /\ ws' = [ws EXCEPT ![c] = "ready"]
  /\ view' = [view EXCEPT ![c] = IF real THEN topology ELSE {}]
  /\ stale' = [stale EXCEPT ![c] = IF real
                                   THEN unsent \union (@ \intersect ProcsOf(queue[c]))
                                   ELSE Proc]
  /\ UNCHANGED <<server, queue, batch, unsent, ticks, side>>

(* ws_endpoint: accept and subscribe.  With a topology there the snapshot  *)
(* follows without an await.                                               *)
Connect(c) ==
  /\ ws[c] = "off"
  /\ topology # NoTopology
  /\ SendSnapshot(c)

ConnectEarly(c) ==
  /\ ws[c] = "off"
  /\ topology = NoTopology
  /\ ws' = [ws EXCEPT ![c] = "waiting"]
  /\ UNCHANGED <<server, queue, batch, view, unsent, stale, ticks, side>>

(* One of the 200 polls, 50 ms apart, finds a topology ...                 *)
Snapshot(c) ==
  /\ ws[c] = "waiting"
  /\ topology # NoTopology
  /\ SendSnapshot(c)

(* ... or none does, and the snapshot is sent anyway.                      *)
SnapshotTimeout(c) ==
  /\ ws[c] = "waiting"
  /\ topology = NoTopology
  /\ SendSnapshot(c)

(* The item taken first is a complete message: sent by itself.             *)
ReceiveTyped(c) ==
  /\ ws[c] = "ready"
  /\ queue[c] # <<>>
  /\ IsTyped(Head(queue[c]))
  /\ queue' = [queue EXCEPT ![c] = Tail(@)]
  /\ UNCHANGED <<server, ws, batch, view, unsent, stale, ticks, side>>

(* How many plain items the batching loop takes before it sends something. *)
Run(c) ==
  LET room == MaxEventBatch - Len(batch[c])
      typed == {i \in 1..Len(queue[c]) : IsTyped(queue[c][i])}
  IN  Least(room, IF typed = {} THEN Len(queue[c])
                  ELSE CHOOSE n \in 0..Len(queue[c]) :
                         n + 1 \in typed /\ \A i \in typed : n + 1 <= i)

(* The frame goes out and the client applies its first n items: of a       *)
(* process the others spoke of it has missed the last event, unless a      *)
(* newer one on it still waits.                                            *)
ApplyFrame(c, frame, n, rest) ==
  /\ view' = [view EXCEPT ![c] = Applied(@, SubSeq(frame, 1, n))]
  /\ stale' = [stale EXCEPT ![c] = @ \union (ProcsOf(SubSeq(frame, n + 1, Len(frame)))
                                              \ ProcsOf(rest))]

(* Mutants: the batch is lost when a typed message interrupts it; it only  *)
(* goes out when it is full.                                               *)
ReceiveEventsLosesBatch(c) ==
  LET taken == batch[c] \o SubSeq(queue[c], 1, Run(c))
      rest  == SubSeq(queue[c], Run(c) + 1, Len(queue[c]))
  IN
  /\ \/ ws[c] = "ready" /\ queue[c] # <<>> /\ ~IsTyped(Head(queue[c]))
     \/ ws[c] = "batching"
  /\ IF Len(taken) < MaxEventBatch /\ rest # <<>>
     THEN /\ ws' = [ws EXCEPT ![c] = "batching"]
          /\ batch' = [batch EXCEPT ![c] = <<>>]
          /\ queue' = [queue EXCEPT ![c] = Tail(rest)]
          /\ UNCHANGED <<view, stale>>
     ELSE /\ ws' = [ws EXCEPT ![c] = "ready"]
          /\ batch' = [batch EXCEPT ![c] = <<>>]
          /\ queue' = [queue EXCEPT ![c] = rest]
          /\ \E n \in Cuts(taken) : ApplyFrame(c, taken, n, rest)
  /\ UNCHANGED <<server, unsent, ticks, side>>

ReceiveEventsWaitsForMore(c) ==
  LET taken == batch[c] \o SubSeq(queue[c], 1, Run(c))
      rest  == SubSeq(queue[c], Run(c) + 1, Len(queue[c]))
  IN
  /\ ws[c] \in {"ready", "batching"}
  /\ queue[c] # <<>>
  /\ ~IsTyped(Head(queue[c]))
  /\ IF Len(taken) < MaxEventBatch
     THEN /\ ws' = [ws EXCEPT ![c] = "batching"]
          /\ batch' = [batch EXCEPT ![c] = taken]
          /\ queue' = [queue EXCEPT ![c] = IF rest = <<>> THEN <<>> ELSE Tail(rest)]
          /\ UNCHANGED <<view, stale>>
     ELSE /\ ws' = [ws EXCEPT ![c] = "ready"]
          /\ batch' = [batch EXCEPT ![c] = <<>>]
          /\ queue' = [queue EXCEPT ![c] = rest]
          /\ \E n \in Cuts(taken) : ApplyFrame(c, taken, n, rest)
  /\ UNCHANGED <<server, unsent, ticks, side>>

(* The batching loop up to its next await: plain items join the batch; a   *)
(* typed one among them is sent at once, ahead of the batch it interrupts. *)
(* With the queue empty or the batch full the batch goes out in one frame. *)
ReceiveEvents(c) ==
  LET taken == batch[c] \o SubSeq(queue[c], 1, Run(c))
      rest  == SubSeq(queue[c], Run(c) + 1, Len(queue[c]))
  IN
  /\ \/ ws[c] = "ready" /\ queue[c] # <<>> /\ ~IsTyped(Head(queue[c]))
     \/ ws[c] = "batching"
  /\ IF Len(taken) < MaxEventBatch /\ rest # <<>>
     THEN /\ ws' = [ws EXCEPT ![c] = "batching"]
          /\ batch' = [batch EXCEPT ![c] = taken]
          /\ queue' = [queue EXCEPT ![c] = Tail(rest)]
          /\ UNCHANGED <<view, stale>>
     ELSE /\ ws' = [ws EXCEPT ![c] = "ready"]
          /\ batch' = [batch EXCEPT ![c] = <<>>]
          /\ queue' = [queue EXCEPT ![c] = rest]
          /\ \E n \in Cuts(taken) : ApplyFrame(c, taken, n, rest)
  /\ UNCHANGED <<server, unsent, ticks, side>>

(* The next send fails; the finally clause unsubscribes.  What the gone    *)
(* client goes on showing is of no interest: it reconnects to a snapshot.  *)
Disconnect(c) ==
  /\ ws[c] # "off"
  /\ ws' = [ws EXCEPT ![c] = "off"]
  /\ queue' = [queue EXCEPT ![c] = <<>>]
  /\ batch' = [batch EXCEPT ![c] = <<>>]
  /\ view' = [view EXCEPT ![c] = {}]
  /\ stale' = [stale EXCEPT ![c] = {}]
  /\ UNCHANGED <<server, unsent, ticks, side>>

Endpoint(c) == Snapshot(c) \/ SnapshotTimeout(c) \/ ReceiveTyped(c) \/ ReceiveEvents(c)

Next ==
  \/ \E new \in SUBSET Proc : \E opened \in SeqOf(new, MaxOpened) : DiffTick(new, opened)
  \/ FinishTick
  \/ FailTick
  \/ PublishSide
  \/ SwitchBenchmark
  \/ \E c \in Client : Connect(c) \/ ConnectEarly(c) \/ Endpoint(c) \/ Disconnect(c)

(* The event loop always gets back to the collector and to every endpoint; *)
(* a client that reads its socket lets send_json return.                   *)
Fairness ==
  /\ WF_vars(FinishTick)
  /\ \A c \in Client : WF_vars(Endpoint(c))

Spec == Init /\ [][Next]_vars /\ Fairness

-----------------------------------------------------------------------------
Streaming(c) == ws[c] \in {"ready", "batching"}

TypeOK ==
  /\ prev \in {NoTopology} \union SUBSET Proc
  /\ topology \in {NoTopology} \union SUBSET Proc
  /\ tick \in {"idle", "detecting"}
  /\ events \in Seq(Event)
  /\ bench \in BOOLEAN
  /\ queue \in [Client -> Seq(Event \union Side)]
  /\ \A c \in Client : Len(queue[c]) <= QueueSize
  /\ ws \in [Client -> {"off", "waiting", "ready", "batching"}]
  /\ batch \in [Client -> Seq(Event \union Side)]
  /\ \A c \in Client : Len(batch[c]) < MaxEventBatch
  /\ view \in [Client -> SUBSET Proc]
  /\ unsent \in SUBSET Proc
  /\ stale \in [Client -> SUBSET Proc]
  /\ ticks \in 0..MaxTicks
  /\ side \in 0..MaxSide

(* A connection's snapshot, the batch it holds, the items queued for it    *)
(* and the events of the running tick always add up to the diff engine's   *)
(* processes, except for those whose own last event this connection lost:  *)
(* it was dropped by the queue, forgone by a failing tick or during the    *)
(* benchmark, or it stood in a frame behind a row that threw.  Whatever is *)
(* dropped, suppressed, cut or overtaken, the damage stays confined to     *)
(* those processes and the next event on one repairs it.                   *)
DamageConfined ==
  \A c \in Client :
    Streaming(c) /\ prev # NoTopology =>
      Applied(view[c], batch[c] \o queue[c] \o events) \ stale[c] = prev \ stale[c]

(* When the topology stops changing every connected client ends up with    *)
(* the processes the server serves, up to those it lost the last event of: *)
(* the endpoint never strands an item in its batch or its queue.           *)
CaughtUp(c) == view[c] \ stale[c] = topology \ stale[c]
ClientsConverge ==
  \A c \in Client : []<>(Streaming(c) /\ topology # NoTopology => CaughtUp(c))
=============================================================================
