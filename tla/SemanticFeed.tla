----------------------------- MODULE SemanticFeed -----------------------------
(***************************************************************************)
(* What the graph shows beyond processes and sockets: the detectors of     *)
(* backend/app/detectors find Hermes, LM Studio and MCP servers in a       *)
(* snapshot, services/semantic.py turns changes into events, and the       *)
(* collector loop publishes them before the process events of its tick.    *)
(*                                                                         *)
(* A process is what its name, path and command line show of it, its       *)
(* parent, and whether it may own a localhost listener.  Confidence,       *)
(* evidence and other texts are left out, and so are LOCAL_LLM detections, *)
(* which the engine handles and no detector returns.  The client's edges   *)
(* are left out too: what matters here is which of them it cannot add.     *)
(***************************************************************************)
EXTENDS Integers, Sequences, SequencesExt, FiniteSets, BoundedQueue

CONSTANTS
  Proc,       \* stable process ids
  Marks,      \* Marks[p]: what p shows of itself
  Parent,     \* Parent[p]: the process with p's ppid, or NoProc
  NoProc,
  Listener,   \* the processes that may own a localhost listener
  QueueSize,  \* EventStream's queue_size (500)
  MaxBatch,   \* max_event_batch (100)
  MaxChanges, \* bound: processes and listeners that start or stop
  MaxFaults   \* bound: detector passes in which a detector raises

Mark == {"desktop", "gateway", "kin", "studio", "package", "token", "launcher"}

VARIABLES
  host,     \* the processes that run, and those of them that listen
  stage,    \* the collector loop: asleep, or awaiting the detectors
  scan,     \* its snapshot
  news,     \* the process and socket events of its tick
  prev,     \* what the diff engine saw last
  topo,     \* _state["topology"]
  dets,     \* _detections, the semantic nodes
  lastOk,   \* LmStudioDetector._last_ok: the listener that answered, and models
  client,   \* a client is connected
  queue,    \* events it has not received
  graph,    \* the nodes in its graph
  missed,   \* history: nodes whose last event was dropped on the way to it
  changes, faults  \* counters for the bounds

loop   == <<stage, scan, news, prev, topo>>
engine == <<dets, lastOk>>
page   == <<client, queue, graph, missed>>
semVars == <<host, loop, engine, page, changes, faults>>

Nothing  == [procs |-> {}, open |-> {}]
Unknown  == [procs |-> {}, open |-> {}, none |-> TRUE]
NoAnswer == [at |-> NoProc, models |-> FALSE]

Socket(p) == <<"lst", p>>
Hermes    == <<"sem:hermes">>
LmStudio  == <<"sem:lmstudio">>
Server(p) == <<"sem:mcp", p>>
Models    == <<"sem:model">>
Semantic  == {Hermes, LmStudio} \union {Server(p) : p \in Proc}

(* The prefix of an id tells which of these it is the id of.               *)
ASSUME SemanticAssumption ==
  /\ IsFiniteSet(Proc)
  /\ Proc \intersect (Semantic \union {Socket(p) : p \in Proc}) = {}
  /\ Marks \in [Proc -> SUBSET Mark]
  /\ Parent \in [Proc -> Proc \union {NoProc}]
  /\ Listener \subseteq Proc
  /\ QueueSize \in Nat \ {0} /\ MaxBatch \in Nat \ {0}

SemInit ==
  /\ \E procs \in SUBSET Proc, open \in SUBSET Listener :
       open \subseteq procs /\ host = [procs |-> procs, open |-> open]
  /\ stage = "sleep" /\ scan = Nothing /\ news = <<>>
  /\ prev = Unknown /\ topo = Unknown
  /\ dets = {} /\ lastOk = NoAnswer
  /\ client = FALSE /\ queue = <<>> /\ graph = {} /\ missed = {}
  /\ changes = 0 /\ faults = 0

-----------------------------------------------------------------------------
(* HermesDetector.detect: processes with a name or a command line of       *)
(* Hermes, and their descendants, without a gap, with its path.            *)
Shows(p, marks) == Marks[p] \intersect marks # {}

Family ==
  [procs \in SUBSET Proc |->
     LET family[n \in 0..Cardinality(procs)] ==
           IF n = 0 THEN {p \in procs : Shows(p, {"desktop", "gateway"})}
           ELSE family[n - 1]
                  \union {p \in procs : Shows(p, {"kin"}) /\ Parent[p] \in family[n - 1]}
     IN  family[Cardinality(procs)]]

Hosts(node, owners, s) == {<<node, Socket(p)>> : p \in owners \intersect s.open}

HermesRels(s) ==
  {<<p, Hermes>> : p \in Family[s.procs]}
    \union {<<Parent[p], p>> : p \in {q \in Family[s.procs] : Parent[q] \in Family[s.procs]}}
    \union Hosts(Hermes, {p \in Family[s.procs] : Shows(p, {"gateway"})
                                                  /\ ~Shows(p, {"desktop"})}, s)

(* LmStudioDetector.detect; the models it serves have no node.             *)
Studio(s) == {p \in s.procs : Shows(p, {"studio"})}

StudioRels(s, api) ==
  Hosts(LmStudio, Studio(s), s)
    \union (IF api = NoAnswer THEN {} ELSE {<<LmStudio, Socket(api.at)>>})
    \union (IF api.models THEN {<<LmStudio, Models>>} ELSE {})

(* McpDetector.detect: a package path, or the mere marker if the parent is *)
(* a known launcher or not there.                                          *)
Servers(s) ==
  {p \in s.procs :
     \/ Shows(p, {"package"})
     \/ Shows(p, {"token"}) /\ (Parent[p] \in s.procs => Shows(Parent[p], {"launcher"}))}

ServerRels(s) ==
  UNION {{<<p, Server(p)>>} \union Hosts(Server(p), {p}, s)
           \union (IF Parent[p] \in s.procs
                   THEN {<<Parent[p], p>>, <<Parent[p], Server(p)>>} ELSE {}) : p \in Servers(s)}

(* run_all: a detector that raises contributes nothing.                    *)
Found(s, failed) ==
  (IF Family[s.procs] # {} /\ "hermes" \notin failed THEN {Hermes} ELSE {})
    \union (IF Studio(s) # {} /\ "lm_studio" \notin failed THEN {LmStudio} ELSE {})
    \union (IF "mcp" \notin failed THEN {Server(p) : p \in Servers(s)} ELSE {})

Related(s, api, failed) ==
  (IF "hermes" \notin failed THEN HermesRels(s) ELSE {})
    \union (IF Studio(s) # {} /\ "lm_studio" \notin failed THEN StudioRels(s, api) ELSE {})
    \union (IF "mcp" \notin failed THEN ServerRels(s) ELSE {})

(* _probe_ports: what the API of LM Studio is taken to have answered, and  *)
(* _last_ok after it.  A probe asks the ports its processes own, or a hint *)
(* port, where whoever listens may answer; between probes the last good    *)
(* answer counts, however old.  So does one still in the cache: that is of *)
(* the probe before, probes being an interval apart, and the last good.    *)
Probes(s) ==
  LET owned == Studio(s) \intersect s.open
      asked == IF owned # {} THEN owned ELSE Listener
  IN  {<<lastOk, lastOk>>, <<NoAnswer, lastOk>>}
        \union {<<a, a>> : a \in [at : asked, models : BOOLEAN]}

-----------------------------------------------------------------------------
(* SemanticEngine.update: the events of a pass; an event that announces a  *)
(* detection brings the edges that touch its node.                         *)
Announce(d, edges) ==
  [type |-> "DETECTED", node |-> d, edges |-> {e \in edges : d \in {e[1], e[2]}}]
Withdraw(d) == [type |-> "LOST", node |-> d]

Announced(set, edges) == LET list == SetToSeq(set) IN [k \in DOMAIN list |-> Announce(list[k], edges)]
Withdrawn(set) == LET list == SetToSeq(set) IN [k \in DOMAIN list |-> Withdraw(list[k])]

(* Mutant: what is lost is not announced.                                  *)
SemanticEventsOnlyNew(found, edges) == Announced(found \ dets, edges)

SemanticEvents(found, edges) == Announced(found \ dets, edges) \o Withdrawn(dets \ found)

(* DiffEngine.diff, for processes and listeners; the first is the baseline. *)
RawEvents(s) ==
  LET list(type, set) ==
        LET nodes == SetToSeq(set) IN [k \in DOMAIN nodes |-> [type |-> type, node |-> nodes[k]]]
  IN  IF prev = Unknown THEN <<>>
      ELSE list("STARTED", s.procs \ prev.procs) \o list("STOPPED", prev.procs \ s.procs)
           \o list("OPENED", s.open \ prev.open)

(* Mutant: a client that is not there has a queue.                         *)
PublishAnyway(events) ==
  queue' = Latest(queue \o events, QueueSize) /\ UNCHANGED missed

(* EventStream.publish: a full queue drops its oldest events.              *)
Publish(events) ==
  LET all == queue \o events
  IN  IF client
      THEN /\ queue' = Latest(all, QueueSize)
           /\ missed' = missed \union {e.node : e \in Range(Overflow(all, QueueSize))}
      ELSE queue' = <<>> /\ UNCHANGED missed

(* _collect_loop, a tick that runs no detector.                            *)
ScanOnly ==
  /\ stage = "sleep" /\ topo # Unknown
  /\ prev' = host /\ topo' = host
  /\ Publish(RawEvents(host))
  /\ UNCHANGED <<host, stage, scan, news, engine, client, graph, changes, faults>>

(* A tick up to the await: the cadence is over, or it is the first.        *)
ScanDue ==
  /\ stage = "sleep" /\ stage' = "detect"
  /\ scan' = host /\ prev' = host /\ news' = RawEvents(host)
  /\ UNCHANGED <<host, topo, engine, page, changes, faults>>

(* Mutant of Adopted: a detector that raised keeps its detections.         *)
AdoptedMerged(found) == found \union dets

Adopted(found) == found

(* The rest of it: update, publish what changed, then the state and the    *)
(* process events.                                                         *)
Detect(failed) ==
  /\ stage = "detect" /\ stage' = "sleep"
  /\ \E probe \in Probes(scan) :
       LET found == Found(scan, failed)
           edges == Related(scan, probe[1], failed)
       IN  /\ lastOk' = IF Studio(scan) # {} THEN probe[2] ELSE lastOk
           /\ dets' = Adopted(found)
           /\ Publish(SemanticEvents(found, edges) \o news)
  /\ topo' = scan /\ scan' = Nothing /\ news' = <<>>
  /\ UNCHANGED <<host, prev, client, graph, changes>>

DetectAll == Detect({}) /\ UNCHANGED faults

DetectSome ==
  /\ faults < MaxFaults /\ faults' = faults + 1
  /\ \E detector \in {"hermes", "lm_studio", "mcp"} : Detect({detector})

-----------------------------------------------------------------------------
(* The client: what an event draws and what it erases, and what is there   *)
(* after the first k events of a frame.                                    *)
Drawn(e) ==
  CASE e.type \in {"STARTED", "DETECTED"} -> {e.node}
    [] e.type = "OPENED" -> {e.node, Socket(e.node)}
    [] OTHER -> {}

Erased(e) == IF e.type \in {"STOPPED", "LOST"} THEN {e.node} ELSE {}

After(frame, k) ==
  LET layer(i) == IF i = 0 THEN graph ELSE Drawn(frame[i])
  IN  UNION {layer(i) \ UNION {Erased(frame[j]) : j \in (i + 1)..k} : i \in 0..k}

(* Adding an edge without both its ends throws, which ends the frame:      *)
(* nothing after that edge is applied.                                     *)
AppliedLength(frame) ==
  LET throws == {k \in DOMAIN frame :
                   /\ frame[k].type = "DETECTED"
                   /\ \E edge \in frame[k].edges : ~({edge[1], edge[2]} \subseteq After(frame, k))}
  IN  IF throws = {} THEN Len(frame) ELSE CHOOSE k \in throws : \A j \in throws : k <= j

(* ws_endpoint sends what waits as one frame, up to a number of events.    *)
Deliver ==
  /\ client /\ queue # <<>>
  /\ LET n       == Least(MaxBatch, Len(queue))
         frame   == SubSeq(queue, 1, n)
         applied == AppliedLength(frame)
     IN  /\ graph' = After(frame, applied)
         /\ missed' = (missed \ {frame[k].node : k \in 1..applied})
                        \union {frame[k].node : k \in (applied + 1)..n}
         /\ queue' = SubSeq(queue, n + 1, Len(queue))
  /\ UNCHANGED <<host, loop, engine, client, changes, faults>>

(* A connection, the first or a new one.  Nodes come before edges, so an   *)
(* edge that cannot be added leaves the snapshot its nodes.                *)
Connect ==
  /\ topo # Unknown
  /\ client' = TRUE /\ queue' = <<>>
  /\ graph' = topo.procs \union {Socket(p) : p \in topo.open} \union dets
  /\ missed' = {}
  /\ UNCHANGED <<host, loop, engine, changes, faults>>

(* A process starts or ends, or a listener opens or closes.                *)
Change ==
  /\ changes < MaxChanges /\ changes' = changes + 1
  /\ \/ \E p \in Proc \ host.procs : host' = [host EXCEPT !.procs = @ \union {p}]
     \/ \E p \in host.procs : host' = [procs |-> host.procs \ {p}, open |-> host.open \ {p}]
     \/ \E p \in (Listener \intersect host.procs) \ host.open :
          host' = [host EXCEPT !.open = @ \union {p}]
     \/ \E p \in host.open : host' = [host EXCEPT !.open = @ \ {p}]
  /\ UNCHANGED <<loop, engine, page, faults>>

SemNext ==
  \/ Change \/ ScanOnly \/ ScanDue \/ DetectAll \/ DetectSome
  \/ Connect \/ Deliver

SemSpec == SemInit /\ [][SemNext]_semVars

(* The loop catches what a tick raises and sleeps a bounded time, its      *)
(* cadence makes the detectors due again, and they return.                 *)
Detects == stage = "sleep" /\ stage' = "detect"
Returns == stage = "detect" /\ stage' = "sleep"

SemFairSpec == SemSpec /\ WF_stage(Detects) /\ WF_stage(Returns)
-----------------------------------------------------------------------------
SemTypeOK ==
  /\ host.open \subseteq host.procs \intersect Listener
  /\ stage \in {"sleep", "detect"}
  /\ dets \subseteq Semantic
  /\ graph \subseteq Proc \union {Socket(p) : p \in Listener} \union Semantic
  /\ missed \subseteq Proc \union Semantic
  /\ client \in BOOLEAN /\ (client \/ queue = <<>>)

(* A client that has received everything shows the processes of the        *)
(* topology and what is detected, but for the nodes whose last event the   *)
(* full queue dropped or stood behind an edge it could not add.            *)
ClientAgrees ==
  (client /\ queue = <<>>) =>
    \A n \in (Proc \union Semantic) \ missed : n \in graph <=> n \in topo.procs \union dets

(* Whatever failed, the engine detects what is there once nothing changes. *)
EngineSettles == <>[](dets = Found(host, {}))

(* semantic.py:12: the engine is purely additive and "SYSTEM WATCH's raw   *)
(* process truth stays intact".                                            *)
RawTruthKept == (client /\ queue = <<>>) => graph \intersect Proc = topo.procs
=============================================================================
