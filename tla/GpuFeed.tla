------------------------------- MODULE GpuFeed --------------------------------
(***************************************************************************)
(* Which processes use which GPU, from collectors/gpu.py through the loop  *)
(* _gpu_loop of main.py to the USES_GPU edges a client draws.  Metrics are *)
(* left out; a process is its pid and its stable id.  What is published is *)
(* applied at once: queues and benchmark are LiveFeed's subject.  The rows *)
(* of other loops are not modelled, but that one of them may throw and end *)
(* a frame or a snapshot is.                                               *)
(***************************************************************************)
EXTENDS Integers

CONSTANTS
  Gpu,        \* device indices
  Proc,       \* processes
  MaxChanges, \* bound: changes of who runs and who uses what
  MaxFaults   \* bound: samples that fail

ASSUME GpuAssumption == Gpu \subseteq Nat

VARIABLES
  source,   \* GpuCollector.source: NVML, or nvidia-smi
  users,    \* the processes that have a context on each GPU
  procs,    \* the processes of _state["snapshot"]
  sampled,  \* last_pid_sample is set
  lists,    \* prev_gpus and _state["gpu"]: the processes by GPU, or NoGpus
  prev,     \* _prev_pids
  seen,     \* _pids_seen
  engine,   \* _gpu and _pid_sid of the semantic engine
  client,   \* connected, with GPU nodes or without
  drawn,    \* its USES_GPU edges
  excused,  \* history: uses the client is not told of
  clean,    \* history: no sample has failed since the last full one
  changes, faults  \* counters for the bounds

loop == <<sampled, lists, prev, seen>>
page == <<client, drawn>>
vars == <<source, users, procs, loop, engine, page, excused, clean, changes, faults>>

NoGpus  == [g \in {} |-> {}]
NoUsers == [g \in Gpu |-> {}]

(* Pairs of a process and a GPU.                                           *)
Uses(l) == UNION {{<<p, g>> : p \in l[g]} : g \in DOMAIN l}

Init ==
  /\ source \in {"NVML", "NVIDIA_SMI"}
  /\ users \in [Gpu -> SUBSET Proc] /\ procs = {}
  /\ sampled = FALSE /\ lists = NoGpus /\ prev = NoUsers /\ seen = FALSE
  /\ engine = [lists |-> NoGpus, procs |-> {}]
  /\ client = "off" /\ drawn = {} /\ excused = {} /\ clean = TRUE
  /\ changes = 0 /\ faults = 0

-----------------------------------------------------------------------------
(* Mutant: no list is carried over.                                        *)
CarriedNot(l) == NoUsers

(* _gpu_loop, a tick that asks for metrics only: the lists are those of    *)
(* the tick before, and empty if that had none.                            *)
Carried(l) == IF l = NoGpus THEN NoUsers ELSE l

(* changed_pids: all GPUs taken together; the first call is the baseline.  *)
Attached(new) == IF seen THEN {u[1] : u \in Uses(new) \ Uses(prev)} ELSE {}
Detached(new) == IF seen THEN {u[1] : u \in Uses(prev) \ Uses(new)} ELSE {}

(* Mutant: edges end at the first device.                                  *)
DeviceFirst(p, g, new) == \A h \in Gpu : g <= h

(* _gpu_pid_event: the last GPU that lists the process.                    *)
Device(p, g, new) == p \in new[g] /\ \A h \in Gpu : p \in new[h] => h <= g

(* Mutant: a process the topology does not have gets an edge.              *)
BatchAny(new) == {u \in Attached(new) \X Gpu : Device(u[1], u[2], new)}

(* The edges of a batch.  A process the topology does not have yet gets    *)
(* none, and no edge can be added to a GPU the client has no node for; the *)
(* event of a detached process names no edge.                              *)
Batch(new) ==
  {u \in (Attached(new) \intersect procs) \X Gpu : Device(u[1], u[2], new)}

(* One tick with what the sample gave.  The frame the batch is in may end  *)
(* early: a row before it throws, of another loop, or an edge of the batch *)
(* whose process the client has not drawn (its PROCESS_STARTED was lost).  *)
Adopt(new) ==
  /\ lists' = new
  /\ IF new = NoGpus
     THEN UNCHANGED <<prev, seen, page, excused>>
     ELSE \E cut \in BOOLEAN, added \in SUBSET Batch(new) :
          /\ ~cut => added = Batch(new)
          /\ prev' = new /\ seen' = TRUE
          /\ drawn' = IF client = "nodes" THEN drawn \union added ELSE drawn
          /\ client' = IF client = "bare" THEN "nodes" ELSE client
          /\ excused' = (excused \intersect Uses(new))
               \union {u \in Uses(new) \ Uses(prev) :
                         \/ cut \/ ~seen \/ client # "nodes" \/ u[1] \notin procs
                         \/ \E g \in Gpu \ {u[2]} : u[1] \in new[g]}
  /\ UNCHANGED <<source, users, procs, engine, changes>>

(* The processes of each GPU.  nvidia-smi is asked for all of them once    *)
(* per GPU, so each GPU gets them all.                                     *)
Listing ==
  IF source = "NVML" THEN users ELSE [g \in Gpu |-> UNION {users[h] : h \in Gpu}]

SampleAll ==
  /\ sampled' = TRUE /\ clean' = TRUE
  /\ Adopt(Listing)
  /\ UNCHANGED faults

SampleMetrics ==
  /\ sampled
  /\ Adopt(Carried(lists))
  /\ UNCHANGED <<sampled, clean, faults>>

Fault == faults < MaxFaults /\ faults' = faults + 1 /\ clean' = FALSE

(* The sample raises, or nvidia-smi does not answer.                       *)
SampleFails == Fault /\ sampled' = TRUE /\ Adopt(NoGpus)

(* The devices answer; the process lists of some of them do not.  NVML has *)
(* two lists for a device, of the compute and of the graphics contexts,    *)
(* and one may come without the other.                                     *)
ListsFail ==
  /\ Fault /\ sampled' = TRUE
  /\ \E part \in [Gpu -> SUBSET Proc] :
       /\ \A g \in Gpu : /\ part[g] \subseteq Listing[g]
                         /\ source = "NVML" \/ part[g] \in {{}, Listing[g]}
       /\ Adopt(part)

-----------------------------------------------------------------------------
(* SemanticEngine.update adopts the GPUs of the moment.                    *)
DetectorPass ==
  /\ engine' = [lists |-> lists, procs |-> procs]
  /\ UNCHANGED <<source, users, procs, loop, page, excused, clean, changes, faults>>

(* A connection, the first or a new one: the snapshot has the engine's     *)
(* GPUs and edges.  Its edges are added in one call, those of the          *)
(* relationships before these: the first without one of its ends throws    *)
(* and ends it.  A relationship may be such an edge (to a model that is    *)
(* not a node, of a process that has ended), and so may the use of a       *)
(* process that has ended since the detector pass.                         *)
Connect ==
  LET edges == {u \in Uses(engine.lists) : u[1] \in engine.procs}
      good  == {u \in edges : u[1] \in procs}
  IN  \E intact \in BOOLEAN, kept \in SUBSET good :
        /\ ~intact => kept = {}
        /\ intact /\ edges = good => kept = good
        /\ client' = IF engine.lists = NoGpus THEN "bare" ELSE "nodes"
        /\ drawn' = kept
        /\ excused' = IF intact /\ edges = good THEN Uses(prev) \ edges ELSE Uses(prev)
        /\ UNCHANGED <<source, users, procs, loop, engine, clean, changes, faults>>

(* Processes come to use a GPU and leave it, and the topology gets to know *)
(* them and forgets them, before or after.                                 *)
Change ==
  /\ changes < MaxChanges /\ changes' = changes + 1
  /\ \/ /\ \E g \in Gpu, p \in Proc :
             users' = [users EXCEPT ![g] = IF p \in @ THEN @ \ {p} ELSE @ \union {p}]
        /\ UNCHANGED <<procs, drawn, excused>>
     \/ /\ \E p \in Proc \ procs : procs' = procs \union {p}
        /\ UNCHANGED <<users, drawn, excused>>
     \/ /\ \E p \in procs : /\ procs' = procs \ {p}
                            /\ drawn' = {u \in drawn : u[1] # p}
                            /\ excused' = excused \union {u \in Uses(prev) : u[1] = p}
        /\ UNCHANGED users
  /\ UNCHANGED <<source, loop, engine, client, clean, faults>>

Next ==
  \/ SampleAll \/ SampleMetrics \/ SampleFails \/ ListsFail
  \/ DetectorPass \/ Connect \/ Change

Spec == Init /\ [][Next]_vars
-----------------------------------------------------------------------------
TypeOK ==
  /\ source \in {"NVML", "NVIDIA_SMI"}
  /\ users \in [Gpu -> SUBSET Proc] /\ procs \subseteq Proc
  /\ lists \in {NoGpus} \union [Gpu -> SUBSET Proc] /\ prev \in [Gpu -> SUBSET Proc]
  /\ engine \in [lists : {NoGpus} \union [Gpu -> SUBSET Proc], procs : SUBSET Proc]
  /\ client \in {"off", "bare", "nodes"}
  /\ drawn \subseteq procs \X Gpu

(* A client shows every use of a GPU the loop knows of, but for those that *)
(* were listed before the process was in the topology, before the client   *)
(* had the GPU, together with another GPU, shortly before it connected, or *)
(* in a frame or a snapshot that an edge without its ends cut short.       *)
UsesShown == client # "off" => Uses(prev) \subseteq drawn \union excused

(* main.py:510 "so the live stream never flickers processes in/out": as    *)
(* long as samples succeed, only a process that has come or gone on a GPU  *)
(* is announced, whatever ticks ask for metrics only.                      *)
EventsTrue ==
  [][(clean /\ clean' /\ prev' # prev /\ seen) =>
       /\ Attached(prev') \subseteq {u[1] : u \in Uses(users)}
       /\ \A p \in Detached(prev') : \E g \in Gpu : p \notin users[g] /\ p \in prev[g]]_vars
=============================================================================
