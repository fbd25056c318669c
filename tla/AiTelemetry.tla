----------------------------- MODULE AiTelemetry -----------------------------
(***************************************************************************)
(* Application-level AI telemetry from the registry to the screen:         *)
(* ai_telemetry/buffer.py keeps the active runs, registry.py publishes     *)
(* events, metrics and provider states, and GraphController.ts draws       *)
(* transient nodes for them.                                               *)
(*                                                                         *)
(* A run or span is its node; texts, tokens and links are left out, and    *)
(* the metrics are their number of runs.  Queues between publisher and     *)
(* client are LiveFeed's subject: a message is shown when it is published, *)
(* or it is lost because nobody is connected or the benchmark mutes it.    *)
(* Init, Next and the like have a prefix here, so that StreamProofs can    *)
(* extend the module beside EventStream.                                   *)
(***************************************************************************)
EXTENDS Integers, Sequences, SequencesExt, FiniteSets, BoundedQueue, Listing

CONSTANTS
  Trace,      \* traces local instrumentation reports
  Span,       \* their spans
  TraceCap,   \* CAP_ACTIVE_TRACES (20)
  NodeCap,    \* MAX_AI_RUNTIME_NODES (24)
  Old,        \* RUN_TTL_S in steps of time
  AlivePolls, \* _METRICS_ALIVE_INTERVAL_S in polls (2)
  MaxEvents,  \* bound: events reported
  MaxMoves    \* bound: connects, disconnects, benchmark switches

ASSUME AiAssumption ==
  /\ TraceCap \in Nat \ {0} /\ NodeCap \in Nat \ {0}
  /\ Old \in Nat \ {0} /\ AlivePolls \in Nat \ {0}

VARIABLES
  traces,    \* the keys of buffer.traces, in their order
  age,       \* now - last_seen of each
  provider,  \* what the provider's last poll found
  stamp,     \* its last_poll, of which only a change matters
  status,    \* _last_provider_status
  metrics,   \* _last_metrics
  since,     \* polls since _last_metrics_at
  connected, \* the client
  muted,     \* the benchmark is active
  nodes,     \* the keys of aiRuntimeNodes, in their order
  drawn,     \* AI_RUNTIME nodes in the graph
  shown,     \* the client's provider state and metrics
  idle,      \* history: time since the last event of each trace
  ended,     \* history: traces whose end was reported, and no start since
  crowded,   \* history: nodes pushed out by the cap since the last snapshot
  lost,      \* history: listed nodes the last snapshot failed to draw
  events, moves  \* counters for the bounds

buffer   == <<traces, age>>
registry == <<provider, stamp, status, metrics, since>>
client   == <<nodes, drawn, shown>>
aiVars     == <<buffer, registry, connected, muted, client, idle, ended, crowded, lost, events, moves>>

Provider == {"UNAVAILABLE", "ACTIVE"}
Never    == [state |-> "never"]
NoEvent  == [kind |-> "none"]

AiInit ==
  /\ traces = <<>> /\ age = [t \in Trace |-> 0]
  /\ provider = "UNAVAILABLE" /\ stamp = 0
  /\ status = Never /\ metrics = Never /\ since = 0
  /\ connected = FALSE /\ muted = FALSE
  /\ nodes = <<>> /\ drawn = {} /\ shown = [status |-> "never", runs |-> 0]
  /\ idle = [t \in Trace |-> 0] /\ ended = {} /\ crowded = {} /\ lost = {}
  /\ events = 0 /\ moves = 0

-----------------------------------------------------------------------------
(* The buffer.  An event of local instrumentation starts, continues or     *)
(* ends a trace; it may be repeated, come late or never.                   *)
Report == [kind : {"START", "END"}, trace : Trace] \union
          [kind : {"SPAN"}, trace : Trace, span : Span]

(* The node of an event: its run's, by the trace, or its own.              *)
NodeOf(e) ==
  IF e.kind = "SPAN" THEN <<"span", e.span>>
  ELSE IF "trace" \in DOMAIN e THEN <<"run", e.trace>>
  ELSE <<"event", e.number>>

(* Mutant: spans do not keep their run alive.                              *)
SeenAtStart(e) == IF e.kind = "START" THEN {e.trace} ELSE {}

(* ingest: the traces after the event, and those it is news of.            *)
Registered(e) ==
  CASE e.kind = "START" -> Append(Where(traces, Trace \ {e.trace}), e.trace)
    [] e.kind = "END"   -> Where(traces, Trace \ {e.trace})
    [] OTHER            -> traces

Seen(e) == {e.trace}

(* Mutant: only age is looked at.                                          *)
PrunedByAge(ts, ages) == Where(ts, {t \in Trace : ages[t] < Old})

(* _prune_traces: first the oldest over the cap, then those too old.       *)
Pruned(ts, ages) == Where(Latest(ts, TraceCap), {t \in Trace : ages[t] < Old})

Ingest(e) ==
  LET ages == [t \in Trace |-> IF t \in Seen(e) THEN 0 ELSE age[t]]
  IN  /\ age' = ages
      /\ traces' = Pruned(Registered(e), ages)
      /\ idle' = [idle EXCEPT ![e.trace] = 0]
      /\ ended' = CASE e.kind = "END"   -> ended \union {e.trace}
                    [] e.kind = "START" -> ended \ {e.trace}
                    [] OTHER            -> ended

-----------------------------------------------------------------------------
(* The client.  aiRuntimeNodes.set leaves a key it has in its place; the   *)
(* nodes over the cap are taken from the map, not from the graph.          *)
Listed(ids, n) == IF n \in Range(ids) THEN ids ELSE Append(ids, n)

Apply(n) ==
  IF connected /\ ~muted
  THEN /\ nodes' = Latest(Listed(nodes, n), NodeCap)
       /\ drawn' = drawn \union {n}
       /\ crowded' = (crowded \ {n}) \union (Range(Listed(nodes, n)) \ Range(nodes'))
       /\ lost' = lost \ {n}
  ELSE UNCHANGED <<nodes, drawn, crowded, lost>>

(* POST /api/ai-telemetry/events: ingest_external.                         *)
ReportEvent ==
  /\ events < MaxEvents /\ events' = events + 1
  /\ \E e \in Report : Ingest(e) /\ Apply(NodeOf(e))
  /\ UNCHANGED <<registry, connected, muted, shown, moves>>

(* Mutant: last_poll is no part of a provider's status.                    *)
StatusOfState(p, n) == [state |-> p]

(* TelemetryProvider.status: last_poll is a part of it.                    *)
StatusOf(p, n) == [state |-> p, polled |-> n]

(* Mutant: metrics go out only when they change.                           *)
MetricsDueOnChange(m, polls) == m # metrics

MetricsDue(m, polls) == m # metrics \/ (m.runs > 0 /\ polls >= AlivePolls)

(* _tick: poll the provider, ingest and publish what it found, then its    *)
(* status if that differs and the metrics if they are due.  The Hermes     *)
(* provider's events have no trace: they leave the runs as they are, but   *)
(* for pruning, and each of them is drawn as a node of its own.            *)
Tick(found) ==
  LET p == StatusOf(provider', stamp')
      m == [runs |-> Len(traces')]
      heard == connected /\ ~muted
  IN  /\ provider' \in Provider
      /\ stamp' = 1 - stamp
      /\ IF found = NoEvent
         THEN UNCHANGED <<buffer, nodes, drawn, crowded, lost, events>>
         ELSE /\ events < MaxEvents /\ events' = events + 1
              /\ traces' = Pruned(traces, age) /\ UNCHANGED age
              /\ Apply(NodeOf(found))
      /\ status' = p
      /\ IF MetricsDue(m, Least(since + 1, AlivePolls))
         THEN metrics' = m /\ since' = 0
         ELSE UNCHANGED metrics /\ since' = Least(since + 1, AlivePolls)
      /\ shown' = [status |-> IF heard /\ p # status THEN provider' ELSE shown.status,
                   runs   |-> IF heard /\ MetricsDue(m, Least(since + 1, AlivePolls))
                              THEN m.runs ELSE shown.runs]
      /\ UNCHANGED <<connected, muted, idle, ended, moves>>

Poll == Tick(NoEvent) \/ \E kind \in {"START", "END"} : Tick([kind |-> kind, number |-> events])

(* Time passes for all runs.                                               *)
TimePasses ==
  /\ \E t \in Range(traces) : age[t] < Old
  /\ age' = [t \in Trace |-> IF t \in Range(traces) THEN Least(age[t] + 1, Old) ELSE 0]
  /\ idle' = [t \in Trace |-> IF t \in Range(traces) THEN Least(idle[t] + 1, Old) ELSE 0]
  /\ UNCHANGED <<traces, registry, connected, muted, client, ended, crowded, lost, events, moves>>

(* Mutant: an expired node is only forgotten.                              *)
ExpireForgets ==
  /\ \E n \in Range(nodes) : nodes' = Where(nodes, Range(nodes) \ {n}) /\ UNCHANGED drawn
  /\ UNCHANGED <<buffer, registry, connected, muted, shown, idle, ended, crowded, lost, events, moves>>

(* decayAiRuntimeNodes: runs, finished runs and spans have lifetimes of    *)
(* their own, so any of them may be the next to go.                        *)
Expire ==
  /\ \E n \in Range(nodes) : /\ nodes' = Where(nodes, Range(nodes) \ {n})
                             /\ drawn' = drawn \ {n}
  /\ UNCHANGED <<buffer, registry, connected, muted, shown, idle, ended, crowded, lost, events, moves>>

-----------------------------------------------------------------------------
Move == moves < MaxMoves /\ moves' = moves + 1

(* A page connects for the first time, or the one that is open reconnects. *)
(* The snapshot replaces the graph and then draws what the map still has;  *)
(* one of its edges without an end, which SemanticFeed is about, throws    *)
(* before that, and the graph has no such node.                            *)
Connect(reload) ==
  /\ Move
  /\ ~connected /\ connected' = TRUE
  /\ nodes' = IF reload THEN <<>> ELSE nodes
  /\ \/ drawn' = Range(nodes') /\ lost' = {}
     \/ drawn' = {} /\ lost' = Range(nodes')
  /\ shown' = IF reload THEN [status |-> "never", runs |-> 0] ELSE shown
  /\ crowded' = {}
  /\ UNCHANGED <<buffer, registry, muted, idle, ended, events>>

Disconnect ==
  /\ Move
  /\ connected /\ connected' = FALSE
  /\ UNCHANGED <<buffer, registry, muted, client, idle, ended, crowded, lost, events>>

SwitchBenchmark ==
  /\ Move
  /\ muted' = ~muted
  /\ UNCHANGED <<buffer, registry, connected, client, idle, ended, crowded, lost, events>>

AiNext ==
  \/ ReportEvent \/ Poll \/ TimePasses \/ Expire
  \/ \E reload \in BOOLEAN : Connect(reload)
  \/ Disconnect \/ SwitchBenchmark

AiSpec == AiInit /\ [][AiNext]_aiVars

(* run_loop catches what a tick raises and sleeps a bounded time.          *)
Polls == stamp' = 1 - stamp

AiFairSpec == AiSpec /\ WF_stamp(Polls)
-----------------------------------------------------------------------------
IsSet(s) == \A i, j \in DOMAIN s : s[i] = s[j] => i = j

AiTypeOK ==
  /\ IsSet(traces) /\ Range(traces) \subseteq Trace /\ Len(traces) <= TraceCap
  /\ age \in [Trace -> 0..Old] /\ idle \in [Trace -> 0..Old]
  /\ provider \in Provider /\ stamp \in {0, 1} /\ since \in 0..AlivePolls
  /\ connected \in BOOLEAN /\ muted \in BOOLEAN
  /\ IsSet(nodes) /\ Len(nodes) <= NodeCap
  /\ DOMAIN shown = {"status", "runs"}

(* A run leaves the active runs by its end, by silence, or because it is   *)
(* the one started first when another starts at the cap; never otherwise   *)
(* while it is being reported.                                             *)
RunKeptWhileBusy ==
  [][\A t \in Range(traces) \ Range(traces') :
       \/ t \in ended'
       \/ idle'[t] >= Old
       \/ /\ Len(traces) = TraceCap /\ t = Head(traces)
          /\ ~(Range(traces') \subseteq Range(traces))]_aiVars

(* A drawn node is going to expire, unless the cap pushed it out of the    *)
(* map: no timer removes such a node, it stays until the next snapshot.    *)
(* (GraphController.ts:531-532 promises more: a "hard node cap".  The map  *)
(* keeps within it, the graph does not, by the nodes in crowded.)  A       *)
(* listed one is drawn, unless the last snapshot failed before it drew it. *)
DrawnExpires ==
  drawn \ Range(nodes) \subseteq crowded /\ Range(nodes) \ drawn \subseteq lost

(* A client that stays connected learns the provider's state, although a   *)
(* snapshot does not tell it.  It owes this to last_poll, which makes the  *)
(* compared status differ at every tick: were "provider state transitions  *)
(* only" published, as registry.py:9 and test_ai_telemetry.py:492-494 say, *)
(* a client that was away at one would never learn it (StatusOfState).     *)
StatusReaches ==
  (connected /\ ~muted) ~> (shown.status = provider \/ ~connected \/ muted)

(* And it learns of active runs, even when it missed the message that      *)
(* announced them.                                                         *)
RunsReach ==
  (connected /\ ~muted /\ traces # <<>>)
    ~> (shown.runs > 0 \/ ~connected \/ muted \/ traces = <<>>)
=============================================================================
